---- MODULE Spec2Model ----
(***************************************************************************)
(* A model of the WorkPal intent pipeline (app/routers/intent.py,          *)
(* app/routers/workpal.py, app/services/excel_service.py).                 *)
(*                                                                         *)
(* Four specifications share the module:                                   *)
(*   SpecExcel  - the Spreadsheet Row Store on one sheet of one file       *)
(*   SpecParse  - the Intent Parser on one LLM reply                       *)
(*   SpecLookup - lookup_email_by_name on one sheet                        *)
(*   Spec       - the Intent Executor with the rule store, registrations,  *)
(*                files, Email Sender and Email Audit                      *)
(*                                                                         *)
(* Representation of values.  A spreadsheet cell holds None, a number or a *)
(* text.  Cells are written as TLA+ strings: None is the token "~None", the *)
(* number 1 is "#1", and every other string is the text itself.  Str is    *)
(* Python's str() on that encoding.  A text that the code takes apart      *)
(* (a condition, a rule document, an LLM reply) is a sequence of tokens;    *)
(* no such text contains the two reserved encodings "~None" and "#1".      *)
(***************************************************************************)
EXTENDS Integers, Sequences, FiniteSets, TLC

VARIABLES
    sheet,      \* SpecExcel: the rows of the sheet as stored in the file
    last,       \* SpecExcel: the last Row Store call: inputs, result, effects
    intact,     \* SpecExcel: whether the file at the path is a complete workbook
    reply,      \* SpecParse: the LLM reply, a sequence of tokens
    parseDone,  \* SpecParse: whether the reply has been parsed
    intents,    \* SpecParse: the intents parsed from the reply
    lkFile,     \* SpecLookup: the HR sheet: [readable, rows]
    lkName,     \* SpecLookup: the employee name looked up
    lkFound,    \* SpecLookup: the result of the lookup, Pending before it
    central_rules,     \* Spec: the central_rules table
    department_rules,  \* Spec: the department_rules table
    department_files,  \* Spec: the department_files table
    files,             \* Spec: the spreadsheet files under the data directory
    email_audits,      \* Spec: the email_audits table
    call,              \* Spec: the execute_intent call in progress
    smtp,              \* SpecSend: the send_email call in progress
    chat,              \* SpecChat: the workpal_chat request in progress
    race        \* SpecRace: two concurrent Row Store callers: [callers, writer]

xlVars == <<sheet, last, intact>>
parseVars == <<reply, parseDone, intents>>
lookupVars == <<lkFile, lkName, lkFound>>
execVars == <<central_rules, department_rules, department_files, files, email_audits, call>>
sendVars == <<smtp>>
chatVars == <<chat>>
raceVars == <<race>>
notXlVars == <<parseVars, lookupVars, execVars, sendVars, chatVars, raceVars>>
notExecVars == <<xlVars, parseVars, lookupVars, sendVars, chatVars, raceVars>>
notSendVars == <<xlVars, parseVars, lookupVars, execVars, chatVars, raceVars>>
notExecChatVars == <<xlVars, parseVars, lookupVars, sendVars, raceVars>>
notRaceVars == <<last, intact, parseVars, lookupVars, execVars, sendVars, chatVars>>

vars == <<sheet, last, intact, reply, parseDone, intents, lkFile, lkName, lkFound,
         central_rules, department_rules, department_files, files, email_audits, call,
         smtp, chat, race>>

(***************************************************************************)
(* Bounds of the model.                                                    *)
(***************************************************************************)
MaxRows == 2        \* data rows of a sheet
MaxList == 3        \* elements of a VALUES sequence
MaxBlocks == 3      \* segments (INTENT blocks, narrative) of an LLM reply
MaxHrRows == 2      \* data rows of the sheet of a name lookup
MaxStored == 3      \* rows of the three tables together

(***************************************************************************)
(* Generic helpers.                                                        *)
(***************************************************************************)
Max(S) == CHOOSE x \in S : \A y \in S : y <= x
Min(S) == CHOOSE x \in S : \A y \in S : x <= y

SeqsUpTo(S, n) == UNION {[1..k -> S] : k \in 0..n}

None == "~None"

\* str(v) of a cell value or a condition value
Str(v) == CASE v = None -> "None"
            [] v = "#1" -> "1"
            [] OTHER    -> v

RECURSIVE lstrip(_, _)
lstrip(s, ch) == IF s # <<>> /\ Head(s) = ch THEN lstrip(Tail(s), ch) ELSE s

RECURSIVE rstrip(_, _)
rstrip(s, ch) ==
    IF s # <<>> /\ s[Len(s)] = ch THEN rstrip(SubSeq(s, 1, Len(s) - 1), ch) ELSE s

\* text.strip(ch) on a token sequence
strip(s, ch) == rstrip(lstrip(s, ch), ch)

RECURSIVE Join(_)
Join(s) == IF s = <<>> THEN "" ELSE Head(s) \o Join(Tail(s))

(***************************************************************************)
(* Spreadsheet Row Store (app/services/excel_service.py).                  *)
(***************************************************************************)
NoCondition == [column |-> "", value |-> "", present |-> FALSE]

parse_simple_condition(condition) ==
    IF condition = <<>> THEN NoCondition
    ELSE IF ~ \E i \in 1..Len(condition) : condition[i] = "=" THEN NoCondition
    ELSE LET i == Min({j \in 1..Len(condition) : condition[j] = "="})
             column == strip(SubSeq(condition, 1, i - 1), " ")
             value == strip(strip(strip(SubSeq(condition, i + 1, Len(condition)),
                                        " "), "'"), "\"")
         IN [column |-> Join(column), value |-> Join(value), present |-> TRUE]

LastNonNull(row) == Max({0} \cup {i \in 1..Len(row) : row[i] # None})

\* wb.save: only the cells that hold a value are written, so that the file
\* has as many rows and columns as its last cell with a value.
wb_save(g) ==
    LET h == Max({0} \cup {r \in 1..Len(g) : LastNonNull(g[r]) > 0})
        w == Max({0} \cup {LastNonNull(g[r]) : r \in 1..Len(g)})
    IN [r \in 1..h |-> [c \in 1..w |-> IF c <= Len(g[r]) THEN g[r][c] ELSE None]]

\* next(sheet.iter_rows(min_row=1, max_row=1)): the cells of row 1; a sheet
\* without any cell yields the single empty cell A1.
header_row(g) == IF g = <<>> THEN <<None>> ELSE g[1]

\* {name: idx for idx, name in enumerate(headers)}: a later column of the
\* same name replaces an earlier one.
header_index(headers, name) ==
    Max({0} \cup {i \in 1..Len(headers) : headers[i] = name})

\* {headers[i]: row[i] for i in range(len(headers))}: an ordered mapping, as
\* a sequence of <<key, value>>; a repeated key keeps its first place and takes
\* the later value.
RECURSIVE record_of(_, _, _)
record_of(headers, row, n) ==
    IF n = 0 THEN <<>>
    ELSE LET d == record_of(headers, row, n - 1)
             k == headers[n]
         IN IF \E j \in 1..Len(d) : d[j][1] = k
            THEN [j \in 1..Len(d) |-> IF d[j][1] = k THEN <<k, row[n]>> ELSE d[j]]
            ELSE Append(d, <<k, row[n]>>)

\* record.get(column) for a column name given as text
record_get(d, name) ==
    IF \E j \in 1..Len(d) : d[j][1] = name
    THEN d[CHOOSE j \in 1..Len(d) : d[j][1] = name][2]
    ELSE None

RECURSIVE read_rows(_, _, _, _)
read_rows(g, headers, cond, r) ==
    IF r > Len(g) THEN <<>>
    ELSE LET record == record_of(headers, g[r], Len(headers))
             skip == /\ cond.present
                     /\ header_index(headers, cond.column) > 0
                     /\ Str(record_get(record, cond.column)) # Str(cond.value)
         IN (IF skip THEN <<>> ELSE <<record>>)
                \o read_rows(g, headers, cond, r + 1)

\* excel_read reading the header row as a data row too (min_row=1)
excel_read_from_row_1(g, condition) ==
    read_rows(g, header_row(g), parse_simple_condition(condition), 1)

excel_read(g, condition) ==
    LET headers == header_row(g)
        cond == parse_simple_condition(condition)
    IN read_rows(g, headers, cond, 2)

(***************************************************************************)
(* INSERT values.  A VALUES payload is [kind, val]: a mapping ("dict", a   *)
(* function from column names to cells), a sequence ("list"), a string     *)
(* ("str", its tokens) or anything else ("other": a number, a boolean).    *)
(***************************************************************************)
Dict(f)  == [kind |-> "dict", val |-> f]
List(s)  == [kind |-> "list", val |-> s]
Text(t)  == [kind |-> "str", val |-> t]
Other    == [kind |-> "other", val |-> <<>>]

JSONDecodeError == [ok |-> FALSE, value |-> Other]

\* One JSON literal token: the number 1, null, or the string "1".
json_literal(t) ==
    CASE t = "1"     -> [ok |-> TRUE, scalar |-> "#1", text |-> FALSE]
      [] t = "null"  -> [ok |-> TRUE, scalar |-> None, text |-> FALSE]
      [] t = "\"1\"" -> [ok |-> TRUE, scalar |-> "1", text |-> TRUE]
      [] OTHER       -> [ok |-> FALSE, scalar |-> None, text |-> FALSE]

\* The elements of a JSON array body: literal ("," literal)*
RECURSIVE json_elements(_)
json_elements(ts) ==
    IF ts = <<>> THEN [ok |-> FALSE, items |-> <<>>]
    ELSE LET lit == json_literal(Head(ts)) IN
         IF ~ lit.ok THEN [ok |-> FALSE, items |-> <<>>]
         ELSE IF Len(ts) = 1 THEN [ok |-> TRUE, items |-> <<lit.scalar>>]
         ELSE IF ts[2] # "," THEN [ok |-> FALSE, items |-> <<>>]
         ELSE LET rest == json_elements(SubSeq(ts, 3, Len(ts))) IN
              [ok |-> rest.ok, items |-> <<lit.scalar>> \o rest.items]

\* json.loads on the texts of the model: arrays of literals and single
\* literals decode, everything else is a JSONDecodeError.
json_loads(text) ==
    LET ts == SelectSeq(text, LAMBDA t : t # " ") IN
    IF ts = <<>> THEN JSONDecodeError
    ELSE IF Head(ts) = "[" /\ Len(ts) >= 2 /\ ts[Len(ts)] = "]"
    THEN IF Len(ts) = 2 THEN [ok |-> TRUE, value |-> List(<<>>)]
         ELSE LET e == json_elements(SubSeq(ts, 2, Len(ts) - 1)) IN
              IF e.ok THEN [ok |-> TRUE, value |-> List(e.items)] ELSE JSONDecodeError
    ELSE IF Len(ts) = 1 /\ json_literal(ts[1]).ok
    THEN [ok |-> TRUE,
          value |-> IF json_literal(ts[1]).text
                    THEN Text(<<json_literal(ts[1]).scalar>>) ELSE Other]
    ELSE JSONDecodeError

\* [p.strip() for p in text.split(",")]
RECURSIVE split_comma(_)
split_comma(text) ==
    IF ~ \E i \in 1..Len(text) : text[i] = ","
    THEN <<Join(strip(text, " "))>>
    ELSE LET i == Min({j \in 1..Len(text) : text[j] = ","}) IN
         <<Join(strip(SubSeq(text, 1, i - 1), " "))>>
             \o split_comma(SubSeq(text, i + 1, Len(text)))

ValueError == [ok |-> FALSE, row |-> <<>>]

dict_get(f, k) == IF k \in DOMAIN f THEN f[k] ELSE None

RECURSIVE _normalise_insert_values(_, _)

\* _normalise_insert_values without the cut of a sequence longer than the header
normalise_without_truncation(g, values) ==
    LET headers == header_row(g) IN
    IF values.kind = "dict"
    THEN [ok |-> TRUE,
          row |-> [i \in 1..Len(headers) |-> dict_get(values.val, headers[i])]]
    ELSE IF values.kind = "list"
    THEN [ok |-> TRUE,
          row |-> [i \in 1..Max({Len(headers), Len(values.val)}) |->
                      IF i <= Len(values.val) THEN values.val[i] ELSE None]]
    ELSE IF values.kind = "str" /\ strip(values.val, " ") # <<>>
    THEN LET text == strip(values.val, " ")
             parsed == json_loads(text)
         IN IF parsed.ok
            THEN _normalise_insert_values(g, parsed.value)
            ELSE _normalise_insert_values(g, List(split_comma(text)))
    ELSE ValueError

_normalise_insert_values(g, values) ==
    LET headers == header_row(g) IN
    IF values.kind = "dict"
    THEN [ok |-> TRUE,
          row |-> [i \in 1..Len(headers) |-> dict_get(values.val, headers[i])]]
    ELSE IF values.kind = "list"
    THEN [ok |-> TRUE,
          row |-> [i \in 1..Len(headers) |->
                      IF i <= Len(values.val) THEN values.val[i] ELSE None]]
    ELSE IF values.kind = "str" /\ strip(values.val, " ") # <<>>
    THEN LET text == strip(values.val, " ")
             parsed == json_loads(text)
         IN IF parsed.ok
            THEN _normalise_insert_values(g, parsed.value)
            ELSE _normalise_insert_values(g, List(split_comma(text)))
    ELSE ValueError

\* sheet.append writing at the last row instead of after it
sheet_append_over_last_row(g, row) ==
    IF Len(g) <= 1 THEN Append(g, row) ELSE [g EXCEPT ![Len(g)] = row]

\* sheet.append(row): the row after the last row of the sheet; on a sheet
\* without cells reading the header has made row 1 the last row.
sheet_append(g, row) == IF g = <<>> THEN <<<<None>>, row>> ELSE Append(g, row)

\* The result of a mutating call: what it returns, whether it raised, whether
\* it rewrote the file, and the file afterwards.
Outcome(raised, count, saved, file) ==
    [raised |-> raised, count |-> count, saved |-> saved, file |-> file]

\* a save that adds the last row of the caller's workbook to the file as it
\* is by now
save_appended(on_disk, out) ==
    IF ~ out.saved \/ out.file = <<>> THEN on_disk
    ELSE Append(on_disk, out.file[Len(out.file)])

\* wb.save(resolved) of a caller's workbook: the file is rewritten whole,
\* whatever it holds by now
save_resolved(on_disk, out) == IF out.saved THEN out.file ELSE on_disk

\* The file at the path when the process dies at a point of a mutating
\* call.  The three calls save with wb.save(resolved): the file at the path
\* is opened for writing, which empties it, and the workbook is written into
\* it; save_workbook_atomic is not called by them.  Until the writing is
\* complete the file is not a workbook.
file_left(old, out, crash) ==
    IF ~ out.saved \/ crash = "before_save" THEN [rows |-> old, intact |-> TRUE]
    ELSE IF crash = "in_save" THEN [rows |-> <<>>, intact |-> FALSE]
    ELSE [rows |-> out.file, intact |-> TRUE]

excel_insert(g, values) ==
    LET normalised == _normalise_insert_values(g, values) IN
    IF normalised.ok
    THEN Outcome(FALSE, 0, TRUE, wb_save(sheet_append(g, normalised.row)))
    ELSE Outcome(TRUE, 0, FALSE, g)

\* excel_update rewriting the file before it returns 0 for a missing column
excel_update_saves_first(g, condition, values) ==
    LET cond == parse_simple_condition(condition)
        headers == header_row(g)
        idx == header_index(headers, cond.column)
        matched == {r \in 2..Len(g) : idx > 0 /\ Str(g[r][idx]) = Str(cond.value)}
        newval(r, c) ==
            IF \E k \in DOMAIN values : header_index(headers, k) = c
            THEN values[CHOOSE k \in DOMAIN values : header_index(headers, k) = c]
            ELSE g[r][c]
        updated == [r \in 1..Len(g) |->
                      IF r \in matched
                      THEN [c \in 1..Len(g[r]) |-> newval(r, c)] ELSE g[r]]
    IN IF ~ cond.present THEN Outcome(FALSE, 0, FALSE, g)
       ELSE Outcome(FALSE, Cardinality(matched), TRUE, wb_save(updated))

excel_update(g, condition, values) ==
    LET cond == parse_simple_condition(condition)
        headers == header_row(g)
        idx == header_index(headers, cond.column)
        matched == {r \in 2..Len(g) : Str(g[r][idx]) = Str(cond.value)}
        newval(r, c) ==
            IF \E k \in DOMAIN values : header_index(headers, k) = c
            THEN values[CHOOSE k \in DOMAIN values : header_index(headers, k) = c]
            ELSE g[r][c]
        updated == [r \in 1..Len(g) |->
                      IF r \in matched
                      THEN [c \in 1..Len(g[r]) |-> newval(r, c)] ELSE g[r]]
    IN IF ~ cond.present THEN Outcome(FALSE, 0, FALSE, g)
       ELSE IF idx = 0 THEN Outcome(FALSE, 0, FALSE, g)
       ELSE Outcome(FALSE, Cardinality(matched), TRUE, wb_save(updated))

\* sheet.delete_rows(row_idx) for every matched row, first row first: a row
\* below a deleted one has moved up by then
RECURSIVE delete_rows_ascending(_, _)
delete_rows_ascending(g, rows_to_delete) ==
    IF rows_to_delete = {} THEN g
    ELSE LET row_idx == Min(rows_to_delete) IN
         delete_rows_ascending(
             IF row_idx > Len(g) THEN g
             ELSE SubSeq(g, 1, row_idx - 1) \o SubSeq(g, row_idx + 1, Len(g)),
             rows_to_delete \ {row_idx})

\* sheet.delete_rows(row_idx) for every matched row, last row first
RECURSIVE delete_rows(_, _)
delete_rows(g, rows_to_delete) ==
    IF rows_to_delete = {} THEN g
    ELSE LET row_idx == Max(rows_to_delete) IN
         delete_rows(SubSeq(g, 1, row_idx - 1) \o SubSeq(g, row_idx + 1, Len(g)),
                     rows_to_delete \ {row_idx})

excel_delete(g, condition) ==
    LET cond == parse_simple_condition(condition)
        headers == header_row(g)
        idx == header_index(headers, cond.column)
        rows_to_delete == {r \in 2..Len(g) : Str(g[r][idx]) = Str(cond.value)}
    IN IF ~ cond.present THEN Outcome(FALSE, 0, FALSE, g)
       ELSE IF idx = 0 THEN Outcome(FALSE, 0, FALSE, g)
       ELSE Outcome(FALSE, Cardinality(rows_to_delete), TRUE,
                    wb_save(delete_rows(g, rows_to_delete)))

(***************************************************************************)
(* lookup_email_by_name (app/services/excel_service.py), which reads the   *)
(* sheet with pandas, every cell as text (dtype=str).                      *)
(***************************************************************************)
\* str.lower().str.strip() of a header, and .strip().lower() of a name
lower_strip(t) ==
    CASE t = "Name"            -> "name"
      [] t = " employee_name " -> "employee_name"
      [] t = "Full_Name"       -> "full_name"
      [] t = "Email"           -> "email"
      [] t = " E-MAIL "        -> "e-mail"
      [] t = "Email_Address"   -> "email_address"
      [] t = "Mail"            -> "mail"
      [] t = "Alice"           -> "alice"
      [] t = " alice "         -> "alice"
      [] t = "ALICE "          -> "alice"
      [] t = "Bob"             -> "bob"
      [] t = "Status"          -> "status"
      [] t = "Resigned"        -> "resigned"
      [] t = " RESIGNED "      -> "resigned"
      [] t = "Active"          -> "active"
      [] OTHER                 -> t

\* astype(str) of a cell read with dtype=str: an empty cell is NaN, "nan"
astype_str(v) == IF v = None THEN "nan" ELSE v

name_candidates == <<"name", "employee_name", "full_name">>
email_candidates == <<"email", "e-mail", "email_address", "mail">>

\* the candidate of the leftmost column of the sheet that is a candidate
leftmost_present(candidates, columns) ==
    LET present == {c \in 1..Len(columns) :
                       \E i \in 1..Len(candidates) : columns[c] = candidates[i]}
    IN IF present = {} THEN None ELSE columns[Min(present)]

\* next((c for c in candidates if c in df.columns), None)
first_present(candidates, columns) ==
    LET present == {i \in 1..Len(candidates) :
                       \E c \in 1..Len(columns) : columns[c] = candidates[i]}
    IN IF present = {} THEN None ELSE candidates[Min(present)]

column_of(columns, name) == CHOOSE c \in 1..Len(columns) : columns[c] = name

lookup_email_by_name(file, employee_name) ==
    IF ~ file.readable \/ file.rows = <<>> THEN None
    ELSE LET rows == file.rows
             columns == [c \in 1..Len(rows[1]) |-> lower_strip(rows[1][c])]
             name_col == first_present(name_candidates, columns)
             email_col == first_present(email_candidates, columns)
             target == lower_strip(employee_name)
             matches == {r \in 2..Len(rows) :
                            lower_strip(astype_str(rows[r][column_of(columns, name_col)]))
                                = target}
         IN IF name_col = None \/ email_col = None THEN None
            ELSE IF matches = {} THEN None
            ELSE astype_str(rows[Min(matches)][column_of(columns, email_col)])

(***************************************************************************)
(* Intent Parser (app/routers/workpal.py).  A reply is a sequence of       *)
(* tokens: the marker "INTENT:", field names with their colon ("ACTION:",  *)
(* in any letter case), words, and the white space " " and "\n".           *)
(***************************************************************************)
Whitespace == {" ", "\n"}

RECURSIVE lstrip_ws(_)
lstrip_ws(s) == IF s # <<>> /\ Head(s) \in Whitespace THEN lstrip_ws(Tail(s)) ELSE s

RECURSIVE rstrip_ws(_)
rstrip_ws(s) ==
    IF s # <<>> /\ s[Len(s)] \in Whitespace
    THEN rstrip_ws(SubSeq(s, 1, Len(s) - 1)) ELSE s

\* str.strip() on a token sequence
strip_ws(s) == rstrip_ws(lstrip_ws(s))

\* str.upper() and str.lower() of a token
upper(t) == CASE t = "action:"     -> "ACTION:"
              [] t = "Department:" -> "DEPARTMENT:"
              [] t = "sheet:"      -> "SHEET:"
              [] t = "update"      -> "UPDATE"
              [] t = "Read"        -> "READ"
              [] t = "hr"          -> "HR"
              [] t = "Hr"          -> "HR"
              [] t = "None"        -> "NONE"
              [] t = "Accounts"    -> "ACCOUNTS"
              [] t = "Intent:"     -> "INTENT:"
              [] OTHER             -> t

lower(t) == CASE t = "None"     -> "none"
              [] t = "NULL"     -> "null"
              [] t = "HR"       -> "hr"
              [] t = "Hr"       -> "hr"
              [] t = "UPDATE"   -> "update"
              [] t = "Update"   -> "update"
              [] t = "Disallow" -> "disallow"
              [] t = "Approval" -> "approval"
              [] t = "SEND_EMAIL" -> "send_email"
              [] t = "Accounts" -> "accounts"
              [] t = "ACCOUNTS" -> "accounts"
              [] t = "READ"     -> "read"
              [] t = "INSERT"   -> "insert"
              [] t = "DELETE"   -> "delete"
              [] t = "TEMPLATE" -> "template"
              [] t = "WORKFLOW" -> "workflow"
              [] t = "ROUTE"    -> "route"
              [] OTHER          -> t

upper_all(s) == [i \in 1..Len(s) |-> upper(s[i])]
lower_all(s) == [i \in 1..Len(s) |-> lower(s[i])]

marker == "INTENT:"

\* The field names of the lookahead, each with its colon
lookahead_fields ==
    {"ACTION:", "DEPARTMENT:", "EXCEL_PATH:", "SHEET:", "CONDITION:", "VALUES:",
     "NOTES:", "EMPLOYEE_NAME:", "EMAIL:", "SUBJECT:", "BODY:"}

allowed_actions ==
    {"READ", "INSERT", "UPDATE", "DELETE", "TEMPLATE", "WORKFLOW", "SEND_EMAIL"}

Absent == [present |-> FALSE, value |-> <<>>]

\* re.search(key\s*:(.*?)(?=(fields)\s*:|$), after, IGNORECASE | DOTALL):
\* from the first occurrence of the key to the next field name or the end.
field_match(after, key) ==
    IF ~ \E i \in 1..Len(after) : upper(after[i]) = key THEN Absent
    ELSE LET i == Min({k \in 1..Len(after) : upper(after[k]) = key})
             j == Min({k \in (i + 1)..Len(after) : upper(after[k]) \in lookahead_fields}
                      \cup {Len(after) + 1})
         IN [present |-> TRUE, value |-> strip_ws(SubSeq(after, i + 1, j - 1))]

_norm_optional(m) ==
    IF ~ m.present THEN None
    ELSE LET v == strip_ws(m.value) IN
         IF Join(lower_all(v)) \in {"", "none", "null", "empty", "n/a"} THEN None
         ELSE Join(v)

NoIntent == [ok |-> FALSE, action |-> "", department |-> "", sheet_name |-> None]

\* parse_intent_from_text without the test of the action against the allowed ones
parse_intent_any_action(text) ==
    IF ~ \E i \in 1..Len(text) : text[i] = marker THEN NoIntent
    ELSE LET m == Min({i \in 1..Len(text) : text[i] = marker})
             after == SubSeq(text, m + 1, Len(text))
             action_raw == field_match(after, "ACTION:")
             department_raw == field_match(after, "DEPARTMENT:")
         IN IF \/ ~ action_raw.present \/ action_raw.value = <<>>
               \/ ~ department_raw.present \/ department_raw.value = <<>>
            THEN NoIntent
            ELSE [ok |-> TRUE, action |-> Join(upper_all(strip_ws(action_raw.value))),
                  department |-> Join(strip_ws(department_raw.value)),
                  sheet_name |-> _norm_optional(field_match(after, "SHEET:"))]

parse_intent_from_text(text) ==
    IF ~ \E i \in 1..Len(text) : text[i] = marker THEN NoIntent
    ELSE LET m == Min({i \in 1..Len(text) : text[i] = marker})
             after == SubSeq(text, m + 1, Len(text))
             action_raw == field_match(after, "ACTION:")
             department_raw == field_match(after, "DEPARTMENT:")
             action == Join(upper_all(strip_ws(action_raw.value)))
             department == Join(strip_ws(department_raw.value))
         IN IF \/ ~ action_raw.present \/ action_raw.value = <<>>
               \/ ~ department_raw.present \/ department_raw.value = <<>>
            THEN NoIntent
            ELSE IF action \notin allowed_actions THEN NoIntent
            ELSE [ok |-> TRUE, action |-> action, department |-> department,
                  sheet_name |-> _norm_optional(field_match(after, "SHEET:"))]

\* re.split(r"(?=INTENT:)", text): a new chunk starts at every marker
RECURSIVE split_chunks(_, _)
split_chunks(text, chunk) ==
    IF text = <<>> THEN <<chunk>>
    ELSE IF Head(text) = marker
    THEN <<chunk>> \o split_chunks(Tail(text), <<marker>>)
    ELSE split_chunks(Tail(text), Append(chunk, Head(text)))

RECURSIVE parse_chunks(_)
parse_chunks(chunks) ==
    IF chunks = <<>> THEN <<>>
    ELSE LET chunk == Head(chunks)
             intent == parse_intent_from_text(chunk)
         IN (IF (\E i \in 1..Len(chunk) : chunk[i] = marker) /\ intent.ok
             THEN <<intent>> ELSE <<>>) \o parse_chunks(Tail(chunks))

parse_intents_from_text(text) ==
    IF ~ \E i \in 1..Len(text) : text[i] = marker THEN <<>>
    ELSE parse_chunks(split_chunks(text, <<>>))

(***************************************************************************)
(* SpecParse: the parser on one reply, built from up to MaxBlocks segments. *)
(***************************************************************************)
Narrative == <<"Then", " ", "notify", "\n">>

BlockReadHR ==
    <<"INTENT:", "\n", "ACTION:", " ", "READ", "\n", "DEPARTMENT:", " ", "HR",
      "\n", "\n">>

\* field names and action in lower case, an optional field that says None
BlockUpdateAccounts ==
    <<"INTENT:", "\n", "action:", " ", "update", "\n", "Department:", " ",
      "Accounts", "\n", "sheet:", " ", "None", "\n">>

BlockRoute ==
    <<"INTENT:", "\n", "ACTION:", " ", "ROUTE", "\n", "DEPARTMENT:", " ", "HR", "\n">>

BlockNoAction == <<"INTENT:", "\n", "DEPARTMENT:", " ", "HR", "\n">>

BlockNoDepartment == <<"INTENT:", "\n", "ACTION:", " ", "DELETE", "\n">>

BlockEmptyAction ==
    <<"INTENT:", "\n", "ACTION:", " ", "\n", "DEPARTMENT:", " ", "HR", "\n">>

\* ACTION as the last field of the block
BlockActionLast ==
    <<"INTENT:", "\n", "DEPARTMENT:", " ", "HR", "\n", "SHEET:", "S1", "\n",
      "ACTION:", " ", "INSERT", "\n">>

\* not the marker: the marker is matched in upper case only
BlockLowerMarker ==
    <<"Intent:", "\n", "ACTION:", " ", "READ", "\n", "DEPARTMENT:", " ", "Sales", "\n">>

Segments ==
    { Narrative, BlockReadHR, BlockUpdateAccounts, BlockRoute, BlockNoAction,
      BlockNoDepartment, BlockEmptyAction, BlockActionLast, BlockLowerMarker }

(***************************************************************************)
(* Intent Executor (app/routers/intent.py) and the tables it reads         *)
(* (app/models.py).  A database is [central_rules, department_rules,       *)
(* department_files, files, email_audits]; the three tables are sequences  *)
(* in the order of created_at, files maps a path to [exists, rows].        *)
(***************************************************************************)
\* a value that Python takes as true: neither None nor the empty string
Truthy(v) == v # None /\ v # ""

\* str(n) of a row count or a status code
IntStr(n) ==
    CASE n = 0 -> "0" [] n = 1 -> "1" [] n = 2 -> "2" [] n = 3 -> "3"
      [] n = 4 -> "4" [] n = 5 -> "5" [] n = 6 -> "6"
      [] n = 400 -> "400" [] n = 403 -> "403" [] n = 404 -> "404"
      [] OTHER -> "n"

\* marker in full_text
contains(text, m) ==
    \E i \in 1..(Len(text) - Len(m) + 1) : SubSeq(text, i, i + Len(m) - 1) = m

\* "\n".join(texts)
RECURSIVE join_lines(_)
join_lines(texts) ==
    IF texts = <<>> THEN <<>>
    ELSE IF Len(texts) = 1 THEN texts[1]
    ELSE texts[1] \o <<"\n">> \o join_lines(Tail(texts))

rows_of_user(table, user_id) ==
    LET mine(r) == r.user_id = user_id IN SelectSeq(table, mine)

\* check_authority reading the markers without lowercasing the rule text
check_authority_case_sensitive(table, user_id, department, action) ==
    LET rules == rows_of_user(table, user_id)
        full_text == join_lines([i \in 1..Len(rules) |-> rules[i].rule_text])
        marker_disallow == <<"disallow", " ", lower(action), " ", lower(department)>>
        marker_require_approval ==
            <<"approval", " ", lower(action), " ", lower(department)>>
    IN IF contains(full_text, marker_disallow)
       THEN [allowed |-> FALSE, requires_approval |-> FALSE,
             reason |-> "Disallowed by central rules markers."]
       ELSE IF contains(full_text, marker_require_approval)
       THEN [allowed |-> FALSE, requires_approval |-> TRUE,
             reason |-> "Approval required by central rules markers."]
       ELSE [allowed |-> TRUE, requires_approval |-> FALSE,
             reason |-> "Allowed (no blocking markers found)."]

\* check_authority looking for the approval marker before the disallow marker
check_authority_approval_first(table, user_id, department, action) ==
    LET rules == rows_of_user(table, user_id)
        full_text == lower_all(join_lines([i \in 1..Len(rules) |-> rules[i].rule_text]))
        marker_disallow == <<"disallow", " ", lower(action), " ", lower(department)>>
        marker_require_approval ==
            <<"approval", " ", lower(action), " ", lower(department)>>
    IN IF contains(full_text, marker_require_approval)
       THEN [allowed |-> FALSE, requires_approval |-> TRUE,
             reason |-> "Approval required by central rules markers."]
       ELSE IF contains(full_text, marker_disallow)
       THEN [allowed |-> FALSE, requires_approval |-> FALSE,
             reason |-> "Disallowed by central rules markers."]
       ELSE [allowed |-> TRUE, requires_approval |-> FALSE,
             reason |-> "Allowed (no blocking markers found)."]

\* check_authority answering for SEND_EMAIL what it answers for UPDATE: the
\* nested call inherits the decision taken for the triggering UPDATE
check_authority_as_update(table, user_id, department, action) ==
    LET rules == rows_of_user(table, user_id)
        full_text == lower_all(join_lines([i \in 1..Len(rules) |-> rules[i].rule_text]))
        checked == IF lower(action) = "send_email" THEN "update" ELSE lower(action)
        marker_disallow == <<"disallow", " ", checked, " ", lower(department)>>
        marker_require_approval == <<"approval", " ", checked, " ", lower(department)>>
    IN IF contains(full_text, marker_disallow)
       THEN [allowed |-> FALSE, requires_approval |-> FALSE,
             reason |-> "Disallowed by central rules markers."]
       ELSE IF contains(full_text, marker_require_approval)
       THEN [allowed |-> FALSE, requires_approval |-> TRUE,
             reason |-> "Approval required by central rules markers."]
       ELSE [allowed |-> TRUE, requires_approval |-> FALSE,
             reason |-> "Allowed (no blocking markers found)."]

\* check_authority reading only the newest central rule document of the user
check_authority_newest_only(table, user_id, department, action) ==
    LET rules == rows_of_user(table, user_id)
        full_text == IF rules = <<>> THEN <<>>
                     ELSE lower_all(rules[Len(rules)].rule_text)
        marker_disallow == <<"disallow", " ", lower(action), " ", lower(department)>>
        marker_require_approval ==
            <<"approval", " ", lower(action), " ", lower(department)>>
    IN IF contains(full_text, marker_disallow)
       THEN [allowed |-> FALSE, requires_approval |-> FALSE,
             reason |-> "Disallowed by central rules markers."]
       ELSE IF contains(full_text, marker_require_approval)
       THEN [allowed |-> FALSE, requires_approval |-> TRUE,
             reason |-> "Approval required by central rules markers."]
       ELSE [allowed |-> TRUE, requires_approval |-> FALSE,
             reason |-> "Allowed (no blocking markers found)."]

check_authority(table, user_id, department, action) ==
    LET rules == rows_of_user(table, user_id)
        full_text == lower_all(join_lines([i \in 1..Len(rules) |-> rules[i].rule_text]))
        marker_disallow == <<"disallow", " ", lower(action), " ", lower(department)>>
        marker_require_approval ==
            <<"approval", " ", lower(action), " ", lower(department)>>
    IN IF contains(full_text, marker_disallow)
       THEN [allowed |-> FALSE, requires_approval |-> FALSE,
             reason |-> "Disallowed by central rules markers."]
       ELSE IF contains(full_text, marker_require_approval)
       THEN [allowed |-> FALSE, requires_approval |-> TRUE,
             reason |-> "Approval required by central rules markers."]
       ELSE [allowed |-> TRUE, requires_approval |-> FALSE,
             reason |-> "Allowed (no blocking markers found)."]

\* .order_by(created_at.desc()).first() of the rows of a user and department
NoRow == [found |-> FALSE, row |-> <<>>]

\* .order_by(created_at).first(): the oldest row
earliest(table, user_id, department) ==
    LET idx == {i \in 1..Len(table) :
                   table[i].user_id = user_id /\ table[i].department = department}
    IN IF idx = {} THEN NoRow ELSE [found |-> TRUE, row |-> table[Min(idx)]]

latest(table, user_id, department) ==
    LET idx == {i \in 1..Len(table) :
                   table[i].user_id = user_id /\ table[i].department = department}
    IN IF idx = {} THEN NoRow ELSE [found |-> TRUE, row |-> table[Max(idx)]]

\* parse_central_rules_flags (app/services/pdf_service.py): the phrases are
\* looked for in the lowercased text.  No caller exists in the application.
phrases ==
    << <<"whenever", " ", "an", " ", "employee", " ", "is", " ", "marked", " ",
         "as", " ", "resigned">>,
       <<"hr", " ", "is", " ", "authorized", " ", "to", " ", "send", " ",
         "resignation", " ", "acceptance", " ", "emails", " ", "without", " ",
         "requiring", " ", "prior", " ", "approval">>,
       <<"automatically", " ", "send", " ", "resignation", " ", "acceptance">> >>

parse_central_rules_flags(rule_text) ==
    LET text == lower_all(rule_text) IN
    [auto_send_on_resignation |->
        \E p \in 1..Len(phrases) : contains(text, phrases[p])]

\* central_rules_get_flag reading the oldest row of the user
central_rules_get_flag_oldest(user_id, flag_name, table) ==
    LET rules == rows_of_user(table, user_id) IN
    IF flag_name # "auto_send_on_resignation" THEN FALSE
    ELSE IF rules = <<>> THEN FALSE
    ELSE rules[1].auto_send_on_resignation

\* central_rules_get_flag (app/services/pdf_service.py)
central_rules_get_flag(user_id, flag_name, table) ==
    LET rules == rows_of_user(table, user_id) IN
    IF flag_name # "auto_send_on_resignation" THEN FALSE
    ELSE IF rules = <<>> THEN FALSE
    ELSE rules[Len(rules)].auto_send_on_resignation

\* The columns of EmailAudit, and those that are nullable=False without a
\* default.
EmailAuditColumns ==
    {"id", "user_id", "department", "employee_name", "to_email", "subject",
     "body_excerpt", "status", "error_message", "created_at"}

EmailAuditRequired == {"user_id", "department", "to_email", "status"}

\* models.EmailAudit(**kwargs); db.add(audit); db.commit(): the row is stored
\* when every keyword is a column and every required column has a value;
\* otherwise the constructor or the commit raises and the table is unchanged.
add_email_audit(table, kwargs) ==
    IF /\ DOMAIN kwargs \subseteq EmailAuditColumns
       /\ \A c \in EmailAuditRequired : c \in DOMAIN kwargs /\ kwargs[c] # None
    THEN [raised |-> FALSE, email_audits |-> Append(table, kwargs)]
    ELSE [raised |-> TRUE, email_audits |-> table]

NoData == [kind |-> "none", rows |-> <<>>, rule_text |-> <<>>]

IntentExecutionResponse(success, message, data) ==
    [kind |-> "IntentExecutionResponse", success |-> success, status_code |-> 200,
     message |-> message, data |-> data]

HTTPException(status_code, detail) ==
    [kind |-> "HTTPException", success |-> FALSE, status_code |-> status_code,
     message |-> detail, data |-> NoData]

ResultDict(success, message) ==
    [kind |-> "dict", success |-> success, status_code |-> 200,
     message |-> message, data |-> NoData]

\* str(exc) of an HTTPException
str_exc(exc) == IntStr(exc.status_code) \o ": " \o exc.message

\* What one call of execute_intent leaves: its response, the files and the
\* audit table afterwards, the emails handed to the Email Sender, and the
\* kinds of access it made.
Result(response, files_after, audits_after, sent, effects) ==
    [response |-> response, files |-> files_after, email_audits |-> audits_after,
     sent |-> sent, effects |-> effects]

SheetName == "Sheet1"

\* _ensure_excel_path and _get_sheet of a Row Store call
open_excel(stored, path, sheet_name) ==
    IF ~ stored[path].exists THEN "FileNotFoundError"
    ELSE IF Truthy(sheet_name) /\ sheet_name # SheetName THEN "ValueError"
    ELSE "ok"

\* re.compile(r"^[^@\s]+@[^@\s]+\.[^@\s]+$").match(str(to_email).strip())
\* an email_re that matches every address
email_re_match_any(to_email) == TRUE

email_re_match(to_email) ==
    CASE to_email = "a@x.com"   -> TRUE
      [] to_email = "b@x.com"   -> TRUE
      [] to_email = " a@x.com " -> TRUE
      [] OTHER                  -> FALSE

\* "name" in col.lower()
name_in_lower(col) ==
    col # None /\ lower_strip(col) \in {"name", "employee_name", "full_name"}

\* template.replace("{name}", str(employee_name))
replace_name(template, employee_name) ==
    [i \in 1..Len(template) |->
        IF template[i] = "{name}" THEN employee_name ELSE template[i]]

default_body(employee_name) ==
    <<"Dear ", employee_name,
      ",\n\nWe acknowledge and accept your resignation.\n\nBest regards, HR">>

NoIntentFields ==
    [action |-> "", department |-> "", excel_path |-> None, sheet_name |-> None,
     condition |-> <<>>, values |-> [kind |-> "none", val |-> <<>>],
     employee_name |-> None, email |-> None, subject |-> None, body |-> <<>>]

OperationIntent(action, department) ==
    [NoIntentFields EXCEPT !.action = action, !.department = department]

IntentExecutionRequest(user_id, intent) == [user_id |-> user_id, intent |-> intent]

name_keys == <<"employee_name", "name", "full_name">>

\* send_email(to_email, subject, body), with the outcome the transport gives
Email(to_email, subject, body, outcome) ==
    [to_email |-> to_email, subject |-> subject, body |-> body, outcome |-> outcome]

\* the handler of lines 392-401 letting a failure of send_email through
send_result_raising(transport) ==
    IF transport = "sent" THEN ResultDict(TRUE, "EMAIL sent")
    ELSE HTTPException(500, transport)

\* what the SEND_EMAIL handler returns for the outcome of send_email
\* (lines 392-401)
send_result(transport) ==
    CASE transport = "sent" -> ResultDict(TRUE, "EMAIL sent")
      [] transport = "EmailConfigurationError" ->
             ResultDict(FALSE, "SMTP sender email or password is not configured.")
      [] OTHER -> ResultDict(FALSE, "Failed to send email: " \o transport)

\* the SEND_EMAIL branch without the restriction to the HR department
send_email_any_department(db, request, env) ==
    LET intent == request.intent
        department == intent.department
        employee_name == intent.employee_name
        subject == IF Truthy(intent.subject) THEN intent.subject ELSE ""
        body == intent.body
        fail(status_code, detail, effects) ==
            Result(HTTPException(status_code, detail), db.files, db.email_audits,
                   <<>>, effects)
        dept_file == latest(db.department_files, request.user_id, "HR")
        file == db.files[dept_file.row.excel_path]
        sheet_ok == ~ Truthy(intent.sheet_name) \/ intent.sheet_name = SheetName
        found == lookup_email_by_name(
                     [readable |-> file.exists /\ sheet_ok, rows |-> file.rows],
                     employee_name)
        lookup == ~ Truthy(intent.email)
        to_email == IF lookup THEN found ELSE intent.email
        looked == IF lookup THEN {"department_file", "lookup_email"} ELSE {}
        gate == check_authority(db.central_rules, request.user_id, "HR", "SEND_EMAIL")
    IN IF ~ Truthy(employee_name)
       THEN fail(400, "EMPLOYEE_NAME is required for SEND_EMAIL.", {})
       ELSE IF lookup /\ ~ dept_file.found
       THEN fail(400, "No HR Excel database registered; cannot resolve employee email.",
                 {"department_file"})
       ELSE IF lookup /\ found = None
       THEN fail(400, "Employee not found in HR database", looked)
       ELSE IF ~ email_re_match(to_email)
       THEN fail(400, "Invalid email address format.", looked)
       ELSE IF subject = "" \/ body = <<>>
       THEN fail(400, "SUBJECT and BODY are required for SEND_EMAIL intents.", looked)
       ELSE IF ~ (gate.allowed /\ ~ gate.requires_approval)
       THEN fail(403, "Central rules forbid sending this email.", looked)
       ELSE Result(
                CASE env.transport = "sent" -> ResultDict(TRUE, "EMAIL sent")
                  [] env.transport = "EmailConfigurationError" ->
                         ResultDict(FALSE, "SMTP sender email or password is not configured.")
                  [] OTHER -> ResultDict(FALSE, "Failed to send email: " \o env.transport),
                db.files, db.email_audits,
                <<Email(to_email, subject, body, env.transport)>>,
                looked \cup {"send_email"})

\* the SEND_EMAIL branch of execute_intent
send_email_intent(db, request, env) ==
    LET intent == request.intent
        department == intent.department
        employee_name == intent.employee_name
        subject == IF Truthy(intent.subject) THEN intent.subject ELSE ""
        body == intent.body
        fail(status_code, detail, effects) ==
            Result(HTTPException(status_code, detail), db.files, db.email_audits,
                   <<>>, effects)
        dept_file == latest(db.department_files, request.user_id, "HR")
        file == db.files[dept_file.row.excel_path]
        sheet_ok == ~ Truthy(intent.sheet_name) \/ intent.sheet_name = SheetName
        found == lookup_email_by_name(
                     [readable |-> file.exists /\ sheet_ok, rows |-> file.rows],
                     employee_name)
        lookup == ~ Truthy(intent.email)
        to_email == IF lookup THEN found ELSE intent.email
        looked == IF lookup THEN {"department_file", "lookup_email"} ELSE {}
        gate == check_authority(db.central_rules, request.user_id, "HR", "SEND_EMAIL")
    IN IF upper(department) # "HR"
       THEN fail(403, "SEND_EMAIL is only supported for HR department.", {})
       ELSE IF ~ Truthy(employee_name)
       THEN fail(400, "EMPLOYEE_NAME is required for SEND_EMAIL.", {})
       ELSE IF lookup /\ ~ dept_file.found
       THEN fail(400, "No HR Excel database registered; cannot resolve employee email.",
                 {"department_file"})
       ELSE IF lookup /\ found = None
       THEN fail(400, "Employee not found in HR database", looked)
       ELSE IF ~ email_re_match(to_email)
       THEN fail(400, "Invalid email address format.", looked)
       ELSE IF subject = "" \/ body = <<>>
       THEN fail(400, "SUBJECT and BODY are required for SEND_EMAIL intents.", looked)
       ELSE IF ~ (gate.allowed /\ ~ gate.requires_approval)
       THEN fail(403, "Central rules forbid sending this email.", looked)
       ELSE Result(send_result(env.transport),
                db.files, db.email_audits,
                <<Email(to_email, subject, body, env.transport)>>,
                looked \cup {"send_email"})

RECURSIVE execute_intent(_, _, _)

\* the auto-send logic calling execute_intent a second time when the first
\* nested call did not report success
resignation_cascade_retry(db, request, env, excel_path) ==
    LET intent == request.intent
        values == intent.values.val
        quiet == [sent |-> <<>>, email_audits |-> db.email_audits, effects |-> {}]
        status_keys == {k \in DOMAIN values : lower_strip(k) = "status"}
        status_val == IF status_keys = {} THEN None
                      ELSE values[CHOOSE k \in status_keys : TRUE]
        \* a flag lookup that raises gives flag = False (lines 159-162)
        flag == IF env.flag_error THEN FALSE
                ELSE central_rules_get_flag(request.user_id, "auto_send_on_resignation",
                                            db.central_rules)
        given == {i \in 1..Len(name_keys) :
                     name_keys[i] \in DOMAIN values /\ Truthy(values[name_keys[i]])}
        rows == excel_read(db.files[excel_path].rows, intent.condition)
        first == rows[1]
        name_cols == {j \in 1..Len(first) : name_in_lower(first[j][1])}
        read_name == IF rows = <<>> \/ name_cols = {} THEN None
                     ELSE first[Min(name_cols)][2]
        employee_name == IF given # {} THEN Str(values[name_keys[Min(given)]])
                         ELSE read_name
        read == IF given = {} THEN {"excel_read"} ELSE {}
        dept_rule == latest(db.department_rules, request.user_id, "HR")
        template == IF dept_rule.found THEN dept_rule.row.rule_text ELSE <<>>
        subject == "Resignation Acceptance"
        body == IF template # <<>> THEN replace_name(template, Str(employee_name))
                ELSE default_body(employee_name)
        send_intent == [OperationIntent("SEND_EMAIL", "HR") EXCEPT
                            !.employee_name = Str(employee_name),
                            !.subject = subject, !.body = body]
        send_request == IntentExecutionRequest(request.user_id, send_intent)
        audited(nested) ==
            LET result == IF nested.response.kind = "HTTPException"
                          THEN ResultDict(FALSE, str_exc(nested.response))
                          ELSE nested.response
                success == result.success
                audit_status == IF success THEN "SENT" ELSE "FAILED"
                audit == add_email_audit(
                             nested.email_audits,
                             [user_id |-> request.user_id,
                              to_email |-> "",
                              subject |-> subject,
                              body |-> body,
                              status |-> audit_status,
                              error_message |-> IF success THEN None ELSE result.message])
            IN [sent |-> nested.sent,
                email_audits |-> audit.email_audits,
                effects |-> {"flag", "department_rule", "nested"} \cup read
                                \cup nested.effects
                                \cup (IF "nested" \in nested.effects
                                      THEN {"nested_nested"} ELSE {})
                                \cup (IF nested.response.kind = "HTTPException"
                                      THEN {"nested_raised"} ELSE {})
                                \cup (IF audit.raised THEN {"audit_raised"}
                                                      ELSE {"audit_write"})]
    IN IF ~ (Truthy(status_val) /\ lower_strip(Str(status_val)) = "resigned")
       THEN quiet
       ELSE IF ~ flag
       THEN [quiet EXCEPT !.effects = IF env.flag_error THEN {"flag", "flag_raised"}
                                      ELSE {"flag"}]
       ELSE IF ~ Truthy(employee_name)
       THEN [quiet EXCEPT !.effects = {"flag"} \cup read]
       ELSE \* the nested call is evaluated once
            CHOOSE r \in {IF nested.response.success THEN audited(nested)
                           ELSE [audited(nested) EXCEPT !.sent = nested.sent \o @] :
                             nested \in {execute_intent(db, send_request, env)}} : TRUE

\* the auto-send logic that follows a spreadsheet update (lines 148-256):
\* the emails sent, the audit table and the accesses it adds
resignation_cascade(db, request, env, excel_path) ==
    LET intent == request.intent
        values == intent.values.val
        quiet == [sent |-> <<>>, email_audits |-> db.email_audits, effects |-> {}]
        status_keys == {k \in DOMAIN values : lower_strip(k) = "status"}
        status_val == IF status_keys = {} THEN None
                      ELSE values[CHOOSE k \in status_keys : TRUE]
        \* a flag lookup that raises gives flag = False (lines 159-162)
        flag == IF env.flag_error THEN FALSE
                ELSE central_rules_get_flag(request.user_id, "auto_send_on_resignation",
                                            db.central_rules)
        given == {i \in 1..Len(name_keys) :
                     name_keys[i] \in DOMAIN values /\ Truthy(values[name_keys[i]])}
        rows == excel_read(db.files[excel_path].rows, intent.condition)
        first == rows[1]
        name_cols == {j \in 1..Len(first) : name_in_lower(first[j][1])}
        read_name == IF rows = <<>> \/ name_cols = {} THEN None
                     ELSE first[Min(name_cols)][2]
        employee_name == IF given # {} THEN Str(values[name_keys[Min(given)]])
                         ELSE read_name
        read == IF given = {} THEN {"excel_read"} ELSE {}
        dept_rule == latest(db.department_rules, request.user_id, "HR")
        template == IF dept_rule.found THEN dept_rule.row.rule_text ELSE <<>>
        subject == "Resignation Acceptance"
        body == IF template # <<>> THEN replace_name(template, Str(employee_name))
                ELSE default_body(employee_name)
        send_intent == [OperationIntent("SEND_EMAIL", "HR") EXCEPT
                            !.employee_name = Str(employee_name),
                            !.subject = subject, !.body = body]
        send_request == IntentExecutionRequest(request.user_id, send_intent)
        audited(nested) ==
            LET result == IF nested.response.kind = "HTTPException"
                          THEN ResultDict(FALSE, str_exc(nested.response))
                          ELSE nested.response
                success == result.success
                audit_status == IF success THEN "SENT" ELSE "FAILED"
                audit == add_email_audit(
                             nested.email_audits,
                             [user_id |-> request.user_id,
                              to_email |-> "",
                              subject |-> subject,
                              body |-> body,
                              status |-> audit_status,
                              error_message |-> IF success THEN None ELSE result.message])
            IN [sent |-> nested.sent,
                email_audits |-> audit.email_audits,
                effects |-> {"flag", "department_rule", "nested"} \cup read
                                \cup nested.effects
                                \cup (IF "nested" \in nested.effects
                                      THEN {"nested_nested"} ELSE {})
                                \cup (IF nested.response.kind = "HTTPException"
                                      THEN {"nested_raised"} ELSE {})
                                \cup (IF audit.raised THEN {"audit_raised"}
                                                      ELSE {"audit_write"})]
    IN IF ~ (Truthy(status_val) /\ lower_strip(Str(status_val)) = "resigned")
       THEN quiet
       ELSE IF ~ flag
       THEN [quiet EXCEPT !.effects = IF env.flag_error THEN {"flag", "flag_raised"}
                                      ELSE {"flag"}]
       ELSE IF ~ Truthy(employee_name)
       THEN [quiet EXCEPT !.effects = {"flag"} \cup read]
       ELSE \* the nested call is evaluated once
            CHOOSE r \in {audited(nested) :
                             nested \in {execute_intent(db, send_request, env)}} : TRUE

\* the response of an UPDATE that answers with the first failure of the
\* auto-send logic
update_response_or_failure(updated, cascade) ==
    IF cascade.effects \cap {"flag_raised", "nested_raised", "audit_raised"} # {}
    THEN HTTPException(500, "Internal Server Error")
    ELSE IntentExecutionResponse(TRUE,
             "UPDATE completed for " \o IntStr(updated.count) \o " rows", NoData)

\* the response of an UPDATE (lines 258-261)
update_response(updated, cascade) ==
    IntentExecutionResponse(TRUE,
        "UPDATE completed for " \o IntStr(updated.count) \o " rows", NoData)

\* the READ / INSERT / UPDATE / DELETE branch taking an INSERT without VALUES
\* as the insertion of an empty row
row_store_intent_empty_insert(db, request, env) ==
    LET intent == request.intent
        action == upper(intent.action)
        dept_file == latest(db.department_files, request.user_id, intent.department)
        registered == ~ Truthy(intent.excel_path)
        excel_path == IF registered THEN dept_file.row.excel_path ELSE intent.excel_path
        looked == IF registered THEN {"department_file"} ELSE {}
        fail(status_code, detail) ==
            Result(HTTPException(status_code, detail), db.files, db.email_audits,
                   <<>>, looked)
        opened == open_excel(db.files, excel_path, intent.sheet_name)
        g == db.files[excel_path].rows
        written(out) == [db.files EXCEPT ![excel_path].rows = out.file]
        inserted == excel_insert(g, IF intent.values.kind = "none" THEN List(<<>>)
                                    ELSE intent.values)
        deleted == excel_delete(g, intent.condition)
        update(updated) ==
            LET cascaded(cascade) ==
                    Result(update_response(updated, cascade),
                           written(updated), cascade.email_audits, cascade.sent,
                           looked \cup (IF updated.saved THEN {"excel_write"}
                                                         ELSE {"excel_open"})
                                  \cup cascade.effects)
                follow(after) ==
                    CHOOSE r \in {cascaded(cascade) :
                        cascade \in {resignation_cascade(after, request, env, excel_path)}} :
                        TRUE
            IN CHOOSE r \in {follow(after) :
                               after \in {[db EXCEPT !.files = written(updated)]}} : TRUE
    IN IF registered /\ ~ dept_file.found
       THEN fail(400, "Excel path not provided and no department file registered.")
       ELSE IF action = "READ"
       THEN IF opened = "FileNotFoundError" THEN fail(404, "Excel file not found")
            ELSE IF opened = "ValueError" THEN fail(400, "Sheet not found in Excel file.")
            ELSE Result(IntentExecutionResponse(TRUE, "READ completed",
                            [NoData EXCEPT !.kind = "rows",
                                           !.rows = excel_read(g, intent.condition)]),
                        db.files, db.email_audits, <<>>, looked \cup {"excel_read"})
       ELSE IF action = "INSERT"
       THEN IF opened = "FileNotFoundError" THEN fail(404, "Excel file not found")
            ELSE IF opened = "ValueError" THEN fail(400, "Sheet not found in Excel file.")
            ELSE IF inserted.raised
            THEN fail(400, "Unsupported VALUES format for INSERT.")
            ELSE Result(IntentExecutionResponse(TRUE, "INSERT completed", NoData),
                        written(inserted), db.email_audits, <<>>,
                        looked \cup {"excel_write"})
       ELSE IF action = "UPDATE"
       THEN IF \/ ~ Truthy(intent.sheet_name)
               \/ intent.condition = <<>>
               \/ intent.values.kind # "dict"
            THEN fail(400, "UPDATE requires SHEET, CONDITION and VALUES (mapping column->new value).")
            ELSE IF opened = "FileNotFoundError" THEN fail(404, "Excel file not found")
            ELSE IF opened = "ValueError" THEN fail(400, "Sheet not found in Excel file.")
            ELSE \* count = excel_update(...), evaluated once
                 CHOOSE r \in {update(updated) :
                     updated \in {excel_update(g, intent.condition, intent.values.val)}} :
                     TRUE
       ELSE IF ~ Truthy(intent.sheet_name) \/ intent.condition = <<>>
       THEN fail(400, "DELETE requires SHEET and CONDITION.")
       ELSE IF opened = "FileNotFoundError" THEN fail(404, "Excel file not found")
       ELSE IF opened = "ValueError" THEN fail(400, "Sheet not found in Excel file.")
       ELSE Result(IntentExecutionResponse(TRUE,
                       "DELETE completed for " \o IntStr(deleted.count) \o " rows",
                       NoData),
                   written(deleted), db.email_audits, <<>>,
                   looked \cup (IF deleted.saved THEN {"excel_write"} ELSE {"excel_open"}))

\* the READ / INSERT / UPDATE / DELETE branch of execute_intent
row_store_intent(db, request, env) ==
    LET intent == request.intent
        action == upper(intent.action)
        dept_file == latest(db.department_files, request.user_id, intent.department)
        registered == ~ Truthy(intent.excel_path)
        excel_path == IF registered THEN dept_file.row.excel_path ELSE intent.excel_path
        looked == IF registered THEN {"department_file"} ELSE {}
        fail(status_code, detail) ==
            Result(HTTPException(status_code, detail), db.files, db.email_audits,
                   <<>>, looked)
        opened == open_excel(db.files, excel_path, intent.sheet_name)
        g == db.files[excel_path].rows
        written(out) == [db.files EXCEPT ![excel_path].rows = out.file]
        inserted == excel_insert(g, intent.values)
        deleted == excel_delete(g, intent.condition)
        update(updated) ==
            LET cascaded(cascade) ==
                    Result(update_response(updated, cascade),
                           written(updated), cascade.email_audits, cascade.sent,
                           looked \cup (IF updated.saved THEN {"excel_write"}
                                                         ELSE {"excel_open"})
                                  \cup cascade.effects)
                follow(after) ==
                    CHOOSE r \in {cascaded(cascade) :
                        cascade \in {resignation_cascade(after, request, env, excel_path)}} :
                        TRUE
            IN CHOOSE r \in {follow(after) :
                               after \in {[db EXCEPT !.files = written(updated)]}} : TRUE
    IN IF registered /\ ~ dept_file.found
       THEN fail(400, "Excel path not provided and no department file registered.")
       ELSE IF action = "READ"
       THEN IF opened = "FileNotFoundError" THEN fail(404, "Excel file not found")
            ELSE IF opened = "ValueError" THEN fail(400, "Sheet not found in Excel file.")
            ELSE Result(IntentExecutionResponse(TRUE, "READ completed",
                            [NoData EXCEPT !.kind = "rows",
                                           !.rows = excel_read(g, intent.condition)]),
                        db.files, db.email_audits, <<>>, looked \cup {"excel_read"})
       ELSE IF action = "INSERT"
       THEN IF intent.values.kind = "none" THEN fail(400, "INSERT requires VALUES.")
            ELSE IF opened = "FileNotFoundError" THEN fail(404, "Excel file not found")
            ELSE IF opened = "ValueError" THEN fail(400, "Sheet not found in Excel file.")
            ELSE IF inserted.raised
            THEN fail(400, "Unsupported VALUES format for INSERT.")
            ELSE Result(IntentExecutionResponse(TRUE, "INSERT completed", NoData),
                        written(inserted), db.email_audits, <<>>,
                        looked \cup {"excel_write"})
       ELSE IF action = "UPDATE"
       THEN IF \/ ~ Truthy(intent.sheet_name)
               \/ intent.condition = <<>>
               \/ intent.values.kind # "dict"
            THEN fail(400, "UPDATE requires SHEET, CONDITION and VALUES (mapping column->new value).")
            ELSE IF opened = "FileNotFoundError" THEN fail(404, "Excel file not found")
            ELSE IF opened = "ValueError" THEN fail(400, "Sheet not found in Excel file.")
            ELSE \* count = excel_update(...), evaluated once
                 CHOOSE r \in {update(updated) :
                     updated \in {excel_update(g, intent.condition, intent.values.val)}} :
                     TRUE
       ELSE IF ~ Truthy(intent.sheet_name) \/ intent.condition = <<>>
       THEN fail(400, "DELETE requires SHEET and CONDITION.")
       ELSE IF opened = "FileNotFoundError" THEN fail(404, "Excel file not found")
       ELSE IF opened = "ValueError" THEN fail(400, "Sheet not found in Excel file.")
       ELSE Result(IntentExecutionResponse(TRUE,
                       "DELETE completed for " \o IntStr(deleted.count) \o " rows",
                       NoData),
                   written(deleted), db.email_audits, <<>>,
                   looked \cup (IF deleted.saved THEN {"excel_write"} ELSE {"excel_open"}))

\* the TEMPLATE / WORKFLOW branch answering with an empty text when the
\* department has no rule document
rule_text_intent_lenient(db, request) ==
    LET action == upper(request.intent.action)
        dept_rules == latest(db.department_rules, request.user_id,
                             request.intent.department)
    IN Result(IntentExecutionResponse(TRUE, action \o " rule_text returned.",
                  [NoData EXCEPT !.kind = "rule_text",
                                 !.rule_text = IF dept_rules.found
                                               THEN dept_rules.row.rule_text
                                               ELSE <<>>]),
              db.files, db.email_audits, <<>>, {"department_rule"})

\* the TEMPLATE / WORKFLOW branch of execute_intent
rule_text_intent(db, request) ==
    LET action == upper(request.intent.action)
        dept_rules == latest(db.department_rules, request.user_id,
                             request.intent.department)
    IN IF ~ dept_rules.found
       THEN Result(HTTPException(404, "No department rules found for TEMPLATE/WORKFLOW."),
                   db.files, db.email_audits, <<>>, {"department_rule"})
       ELSE Result(IntentExecutionResponse(TRUE, action \o " rule_text returned.",
                       [NoData EXCEPT !.kind = "rule_text",
                                      !.rule_text = dept_rules.row.rule_text]),
                   db.files, db.email_audits, <<>>, {"department_rule"})

\* execute_intent without the Authority Gate
execute_intent_ungated(db, request, env) ==
    LET action == upper(request.intent.action)
    IN IF action \in {"READ", "INSERT", "UPDATE", "DELETE"}
       THEN row_store_intent(db, request, env)
       ELSE IF action \in {"TEMPLATE", "WORKFLOW"}
       THEN rule_text_intent(db, request)
       ELSE IF action = "SEND_EMAIL"
       THEN send_email_intent(db, request, env)
       ELSE Result(HTTPException(400, "Unsupported ACTION in intent."),
                   db.files, db.email_audits, <<>>, {})

execute_intent(db, request, env) ==
    LET intent == request.intent
        action == upper(intent.action)
        department == intent.department
        gate == check_authority(db.central_rules, request.user_id, department, action)
        unexecuted(response) == Result(response, db.files, db.email_audits, <<>>, {})
    IN IF ~ gate.allowed /\ gate.requires_approval
       THEN unexecuted(IntentExecutionResponse(FALSE,
                "This action requires approval based on company authority rules.",
                NoData))
       ELSE IF ~ gate.allowed /\ ~ gate.requires_approval
       THEN unexecuted(IntentExecutionResponse(FALSE,
                "This action cannot be performed due to company policy restrictions.",
                NoData))
       ELSE IF action \in {"READ", "INSERT", "UPDATE", "DELETE"}
       THEN row_store_intent(db, request, env)
       ELSE IF action \in {"TEMPLATE", "WORKFLOW"}
       THEN rule_text_intent(db, request)
       ELSE IF action = "SEND_EMAIL"
       THEN send_email_intent(db, request, env)
       ELSE unexecuted(HTTPException(400, "Unsupported ACTION in intent."))

(***************************************************************************)
(* Chat Orchestrator (app/routers/workpal.py, workpal_chat).               *)
(***************************************************************************)
\* _norm_optional of a field whose text is kept as tokens
norm_tokens(m) == IF _norm_optional(m) = None THEN <<>> ELSE strip_ws(m.value)

\* values_parsed of parse_intent_from_text: json.loads of the VALUES field,
\* the text itself when it is not JSON
values_parsed(m) ==
    IF _norm_optional(m) = None THEN [kind |-> "none", val |-> <<>>]
    ELSE LET parsed == json_loads(strip_ws(m.value)) IN
         IF parsed.ok THEN parsed.value ELSE Text(strip_ws(m.value))

\* the OperationIntent that parse_intent_from_text builds from a chunk it
\* accepts, with all its fields
operation_intent(text) ==
    LET m == Min({i \in 1..Len(text) : text[i] = marker})
        fields(after, required) ==
            [action |-> required.action,
             department |-> required.department,
             excel_path |-> _norm_optional(field_match(after, "EXCEL_PATH:")),
             sheet_name |-> required.sheet_name,
             condition |-> norm_tokens(field_match(after, "CONDITION:")),
             values |-> values_parsed(field_match(after, "VALUES:")),
             employee_name |-> _norm_optional(field_match(after, "EMPLOYEE_NAME:")),
             email |-> _norm_optional(field_match(after, "EMAIL:")),
             subject |-> _norm_optional(field_match(after, "SUBJECT:")),
             body |-> norm_tokens(field_match(after, "BODY:"))]
    IN CHOOSE r \in {fields(after, required) :
                        after \in {SubSeq(text, m + 1, Len(text))},
                        required \in {parse_intent_from_text(text)}} : TRUE

\* parse_intents_from_text with the intents in full
operation_intents(text) ==
    IF ~ \E i \in 1..Len(text) : text[i] = marker THEN <<>>
    ELSE LET accepts(chunk) == /\ \E i \in 1..Len(chunk) : chunk[i] = marker
                               /\ parse_intent_from_text(chunk).ok
             each(accepted) == [k \in 1..Len(accepted) |-> operation_intent(accepted[k])]
         IN CHOOSE r \in {each(accepted) : accepted \in
                {SelectSeq(split_chunks(text, <<>>), accepts)}} : TRUE

\* "\n\n".join(texts)
RECURSIVE join_paragraphs(_)
join_paragraphs(texts) ==
    IF texts = <<>> THEN <<>>
    ELSE IF Len(texts) = 1 THEN texts[1]
    ELSE texts[1] \o <<"\n\n">> \o join_paragraphs(Tail(texts))

Reverse(s) == [i \in 1..Len(s) |-> s[Len(s) + 1 - i]]

\* the part of the prompt of build_system_prompt that depends on the rules:
\* the central rule text and one section for each department asked for
build_system_prompt(departments, dept_rule_texts, central_rules_text) ==
    [central |-> IF central_rules_text = <<>> THEN <<"(none provided).">>
                 ELSE central_rules_text,
     sections |-> [i \in 1..Len(departments) |->
         LET text == IF departments[i] \in DOMAIN dept_rule_texts
                     THEN strip_ws(dept_rule_texts[departments[i]]) ELSE <<>>
         IN [dept |-> departments[i],
             text |-> IF text = <<>> THEN <<"(no rules provided)">> ELSE text]]]

NoPrompt == [central |-> <<>>, sections |-> <<>>]

FallbackMessage ==
    "The AI engine did not return a usable response. No automation has been executed. Please verify your LLM configuration or try again."

\* None, for the optional intent and result of a WorkPalChatResponse
NoIntentGiven == NoIntentFields
NoResultGiven == [kind |-> "None", success |-> FALSE, status_code |-> 0,
                  message |-> "", data |-> NoData]

\* the response model turns every result, a dict too, into an
\* IntentExecutionResponse
as_response(result) ==
    IntentExecutionResponse(result.success, result.message, result.data)

WorkPalChatResponse(reply_text, intent, execution_result, parsed_intents, execution_results) ==
    [kind |-> "WorkPalChatResponse", status_code |-> 200, detail |-> "",
     reply |-> reply_text, intent |-> intent, execution_result |-> execution_result,
     intents |-> parsed_intents, execution_results |-> execution_results]

ChatError(status_code, detail) ==
    [kind |-> "HTTPException", status_code |-> status_code, detail |-> detail,
     reply |-> <<>>, intent |-> NoIntentGiven, execution_result |-> NoResultGiven,
     intents |-> <<>>, execution_results |-> <<>>]

\* one execution in the loop of workpal_chat
Execution(intent, result, stored) ==
    [intent |-> intent, response |-> result.response, sent |-> result.sent,
     effects |-> result.effects,
     before |-> [files |-> stored.files, email_audits |-> stored.email_audits],
     after |-> [files |-> result.files, email_audits |-> result.email_audits]]

\* the loop of workpal_chat inside one transaction: an HTTPException restores
\* the spreadsheets and the audit table the request found
RECURSIVE run_intents_rollback(_, _, _, _, _)
run_intents_rollback(db, user_id, todo, env, done) ==
    IF todo = <<>>
    THEN [raised |-> FALSE, files |-> db.files, email_audits |-> db.email_audits,
          executions |-> done]
    ELSE LET found == IF done = <<>> THEN [files |-> db.files,
                                            email_audits |-> db.email_audits]
                      ELSE done[1].before
             step(result) ==
                 IF result.response.kind = "HTTPException"
                 THEN [raised |-> TRUE, files |-> found.files,
                       email_audits |-> found.email_audits,
                       executions |-> Append(done, Execution(Head(todo), result, db))]
                 ELSE run_intents_rollback(
                          [db EXCEPT !.files = result.files,
                                     !.email_audits = result.email_audits],
                          user_id, Tail(todo), env,
                          Append(done, Execution(Head(todo), result, db)))
         IN CHOOSE r \in {step(result) : result \in
                {execute_intent(db, IntentExecutionRequest(user_id, Head(todo)), env)}} :
                TRUE

\* the loop of lines 260-267: the intents are executed in turn, each on the
\* database the one before has left; an HTTPException ends the loop
RECURSIVE run_intents(_, _, _, _, _)
run_intents(db, user_id, todo, env, done) ==
    IF todo = <<>>
    THEN [raised |-> FALSE, files |-> db.files, email_audits |-> db.email_audits,
          executions |-> done]
    ELSE LET step(result) ==
                 IF result.response.kind = "HTTPException"
                 THEN [raised |-> TRUE, files |-> result.files,
                       email_audits |-> result.email_audits,
                       executions |-> Append(done, Execution(Head(todo), result, db))]
                 ELSE run_intents([db EXCEPT !.files = result.files,
                                             !.email_audits = result.email_audits],
                                  user_id, Tail(todo), env,
                                  Append(done, Execution(Head(todo), result, db)))
         IN CHOOSE r \in {step(result) : result \in
                {execute_intent(db, IntentExecutionRequest(user_id, Head(todo)), env)}} :
                TRUE

\* the sentinels compared without trimming the reply
unusable_untrimmed(llm_reply) ==
    llm_reply = <<>> \/ Join(llm_reply) \in {"", "<s>", "</s>"}

\* is the reply of the LLM unusable (line 249)
unusable(llm_reply) ==
    llm_reply = <<>> \/ Join(strip_ws(llm_reply)) \in {"", "<s>", "</s>"}

\* the result of the first intent as the primary result
first_result(execution_results) ==
    IF execution_results # <<>> THEN execution_results[1] ELSE NoResultGiven

\* execution_results[-1] if execution_results else None (lines 270-272)
primary_result(execution_results) ==
    IF execution_results # <<>> THEN execution_results[Len(execution_results)]
    ELSE NoResultGiven

ChatResult(response, prompt, parsed, executions, files_after, audits_after) ==
    [response |-> response, prompt |-> prompt, parsed |-> parsed,
     executions |-> executions, files |-> files_after, email_audits |-> audits_after]

\* workpal_chat: request is [user_id, departments], llm is what call_llm does
workpal_chat(db, request, llm, env) ==
    LET dept_rule_texts ==
            [dept \in {d \in {request.departments[i] : i \in 1..Len(request.departments)} :
                          latest(db.department_rules, request.user_id, d).found} |->
                latest(db.department_rules, request.user_id, dept).row.rule_text]
        rules == rows_of_user(db.central_rules, request.user_id)
        central_rules_text ==
            join_paragraphs(Reverse([i \in 1..Len(rules) |-> rules[i].rule_text]))
        system_prompt ==
            build_system_prompt(request.departments, dept_rule_texts, central_rules_text)
        finish(parsed_intents, run) ==
            IF run.raised
            THEN ChatResult(
                     ChatError(run.executions[Len(run.executions)].response.status_code,
                               run.executions[Len(run.executions)].response.message),
                     system_prompt, TRUE, run.executions, run.files, run.email_audits)
            ELSE LET execution_results ==
                         [k \in 1..Len(run.executions) |->
                             as_response(run.executions[k].response)]
                 IN ChatResult(
                        WorkPalChatResponse(llm.reply,
                            IF parsed_intents # <<>> THEN parsed_intents[1]
                            ELSE NoIntentGiven,
                            primary_result(execution_results),
                            parsed_intents, execution_results),
                        system_prompt, TRUE, run.executions, run.files, run.email_audits)
    IN IF llm.raised
       THEN ChatResult(ChatError(500, "RuntimeError"), system_prompt, FALSE, <<>>,
                       db.files, db.email_audits)
       ELSE IF unusable(llm.reply)
       THEN ChatResult(WorkPalChatResponse(<<FallbackMessage>>, NoIntentGiven,
                                           NoResultGiven, <<>>, <<>>),
                       system_prompt, FALSE, <<>>, db.files, db.email_audits)
       ELSE \* intents = parse_intents_from_text(llm_reply), evaluated once
            LET executed(parsed_intents) ==
                    CHOOSE r \in {finish(parsed_intents, run) : run \in
                        {run_intents(db, request.user_id, parsed_intents, env, <<>>)}} :
                        TRUE
            IN CHOOSE r \in {executed(parsed_intents) :
                                 parsed_intents \in {operation_intents(llm.reply)}} : TRUE

(***************************************************************************)
(* SpecExcel: Row Store calls on one sheet.                                *)
(***************************************************************************)
Values == {None, "1", "#1"}

\* Header rows: one column, two columns, a repeated name, a column without
\* a name.
Headers == {<<"id">>, <<"id", "name">>, <<"id", "id">>, <<"id", None>>}

ColumnNames == {"id", "name", "zz"}

Conditions ==
    { <<>>,                                            \* no condition
      <<"id", "=", "1">>,
      <<" ", "id", " ", "=", " ", "'", "1", "'", " ">>, \* spaces and quotes
      <<"name", "=", "None">>,                         \* str(None)
      <<"zz", "=", "1">>,                              \* no such column
      <<"id">> }                                       \* no "="

Mappings == UNION {[K -> {None, "1"}] : K \in SUBSET ColumnNames}

InsertTexts ==
    { <<"[", "1", ",", "\"1\"", "]">>,      \* a JSON array
      <<"1", ",", " ", "x">>,              \* comma separated
      <<"\"1\"">>,                         \* a JSON string
      <<"1">>,                             \* a JSON number
      <<" ">> }                            \* blank

InsertValues ==
    {Dict(f) : f \in Mappings} \cup {List(s) : s \in SeqsUpTo(Values, MaxList)}
        \cup {Text(t) : t \in InsertTexts} \cup {Other}

(***************************************************************************)
(* The Email Sender (app/services/email_service.py).                       *)
(***************************************************************************)
max_attempts == 3

\* int(port_raw) of _get_smtp_credentials: the value, or ValueError
int_port(port_raw) ==
    CASE port_raw = "465" -> 465
      [] port_raw = "587" -> 587
      [] OTHER -> -1

\* _get_smtp_credentials: the exception it raises, or None
_get_smtp_credentials(env) ==
    IF ~ Truthy(env.SMTP_SENDER_EMAIL) \/ ~ Truthy(env.SMTP_SENDER_PASSWORD)
    THEN "EmailConfigurationError"
    ELSE IF int_port(env.SMTP_PORT) = -1 THEN "EmailConfigurationError"
    ELSE None

\* a pause that doubles from two seconds
backoff_from_two(attempt) == 2 ^ attempt

\* the pause after a failed attempt, in seconds (line 92)
backoff(attempt) == 2 ^ (attempt - 1)

\* an SMTP session of the loop, and a time.sleep, as events of the call
Session(attempt, outcome) ==
    [ev |-> "session", attempt |-> attempt, outcome |-> outcome, seconds |-> 0]
Sleep(attempt, seconds) ==
    [ev |-> "sleep", attempt |-> attempt, outcome |-> None, seconds |-> seconds]

NoSend == [pc |-> "none", env |-> None, attempt |-> 0, last_exc |-> None,
           trace |-> <<>>, raised |-> None]

IdleSend == smtp = NoSend

\* the environment variables read by _get_smtp_credentials
SmtpEnvs ==
    [SMTP_SENDER_EMAIL : {None, "", "sender@example.com"},
     SMTP_SENDER_PASSWORD : {None, "", "pw"},
     SMTP_PORT : {"465", "587", "abc"}]

\* what an SMTP session does: it completes, or login/sendmail/connect raises
SmtpOutcomes == {"ok", "SMTPAuthenticationError", "SMTPServerDisconnected", "TimeoutError"}

RECURSIVE Flatten(_)
Flatten(ss) == IF ss = <<>> THEN <<>> ELSE Head(ss) \o Flatten(Tail(ss))

(***************************************************************************)
(* Inputs of SpecChat.                                                     *)
(***************************************************************************)
MaxChatBlocks == 2    \* segments of the LLM reply of a chat
MaxChatStored == 2    \* rows of the three tables together when a chat starts

ChatDeleteAlice ==
    <<"INTENT:", "\n", "ACTION:", " ", "DELETE", "\n", "DEPARTMENT:", " ", "HR", "\n",
      "SHEET:", " ", "Sheet1", "\n", "CONDITION:", " ", "Name", "=", "Alice", "\n">>

ChatTemplateHR ==
    <<"INTENT:", "\n", "ACTION:", " ", "TEMPLATE", "\n", "DEPARTMENT:", " ", "HR", "\n">>

ChatSendAlice ==
    <<"INTENT:", "\n", "ACTION:", " ", "SEND_EMAIL", "\n", "DEPARTMENT:", " ", "HR", "\n",
      "EMPLOYEE_NAME:", " ", "Alice", "\n", "SUBJECT:", " ", "Welcome", "\n",
      "BODY:", " ", "Hello ", "Alice", "\n">>

ChatSegments == {BlockReadHR, ChatDeleteAlice, ChatSendAlice}

\* what call_llm does: it raises RuntimeError, or it returns a text
LlmOutcomes ==
    {[raised |-> TRUE, reply |-> <<>>]}
        \cup {[raised |-> FALSE, reply |-> r] :
                 r \in {<<>>, <<" ", "\n">>, <<"<s>">>, <<" ", "</s>", "\n">>,
                        <<"<s>", "</s>">>, Narrative,
                        BlockRoute \o BlockReadHR \o Narrative \o ChatSendAlice,
                        ChatTemplateHR, ChatTemplateHR \o BlockReadHR,
                        ChatSendAlice \o ChatTemplateHR}}
        \cup {[raised |-> FALSE, reply |-> Flatten(ss)] :
                 ss \in SeqsUpTo(ChatSegments, MaxChatBlocks) \ {<<>>}}

ChatRequests == {[user_id |-> "u1", departments |-> <<"Accounts", "HR">>]}

\* a chat: what the LLM does and what the SMTP transport does; the transport
\* fails in two of them
ChatCalls ==
    {[llm |-> l, transport |-> "sent"] : l \in LlmOutcomes}
        \cup {[llm |-> [raised |-> FALSE, reply |-> r], transport |-> "EmailSendError"] :
                  r \in {ChatSendAlice, ChatSendAlice \o BlockReadHR}}

IdleParse == reply = <<>> /\ parseDone = FALSE /\ intents = <<>>

Pending == "~Pending"

IdleLookup == lkFile = [readable |-> FALSE, rows |-> <<>>] /\ lkName = "" /\ lkFound = Pending

NoCall == [op |-> "none", condition |-> <<>>, values |-> Other, before |-> <<>>,
           rows |-> <<>>, normalised |-> ValueError,
           out |-> Outcome(FALSE, 0, FALSE, <<>>), interrupted |-> "none"]

IdleExcel == sheet = <<>> /\ last = NoCall /\ intact = TRUE

\* where the process dies in a mutating call: before, inside or after wb.save
Crashes == {"before_save", "in_save", "after_save"}

\* the calls in which it dies
CrashCalls ==
    { [name |-> "insert", condition |-> <<>>, values |-> List(<<"1">>)],
      [name |-> "update", condition |-> <<"id", "=", "1">>,
       values |-> Dict([id |-> None])],
      [name |-> "update", condition |-> <<"zz", "=", "1">>,
       values |-> Dict([id |-> None])],
      [name |-> "delete", condition |-> <<"id", "=", "1">>, values |-> Other] }

\* The inputs of Spec: documents, files and requests.
Users == {"u1", "u2"}

\* texts of central rule documents, as words and separators
DocUpdate == <<"Disallow", " ", "UPDATE", " ", "HR">>
DocApproval == <<"approval", " ", "update", " ", "hr">>
DocSend == <<"disallow", " ", "send_email", " ", "hr">>
DocPlain == <<"HR", " ", "may", " ", "update", "\n", "disallow", " ", "update">>
DocMany ==
    <<"disallow", " ", "read", " ", "hr", "\n",
      "approval", " ", "insert", " ", "hr", "\n",
      "disallow", " ", "delete", " ", "hr", "\n",
      "approval", " ", "template", " ", "hr", "\n",
      "disallow", " ", "workflow", " ", "accounts", "\n",
      "approval", " ", "send_email", " ", "accounts", "\n",
      "disallow", " ", "route", " ", "hr", "\n",
      "HR", " ", "will", " ", "automatically", " ", "send", " ", "resignation",
      " ", "acceptance", " ", "emails">>

\* the documents uploaded; DocPlain and DocSend are in the table at start
CentralDocs == {DocUpdate, DocApproval, DocMany}

CentralRule(user_id, rule_text, flag) ==
    [user_id |-> user_id, rule_text |-> rule_text, auto_send_on_resignation |-> flag]

\* The central_rules table as found at start: empty, or one row whose
\* auto_send_on_resignation column is set.
StoredCentralRules ==
    {<<>>} \cup {<<CentralRule("u1", d, TRUE)>> : d \in {DocPlain, DocSend}}

TemplateHR == <<"Dear ", "{name}", ", your resignation is accepted.">>
ProcedureAccounts == <<"Invoices are paid monthly.">>

DepartmentDocs == {<<"HR", TemplateHR>>, <<"Accounts", ProcedureAccounts>>}

\* an HR document and an HR spreadsheet uploaded before the ones above
OlderTemplateHR == <<"Dear ", "{name}", ", we accept your resignation.">>
OlderSheetHR == << <<"Name", "Email", "status">>, <<"Alice", "b@x.com", "Active">> >>

SheetHR == << <<"Name", "Email", "status">>, <<"Alice", "a@x.com", "Active">> >>
SheetAccounts == << <<"id", "amount">>, <<"1", "#1">> >>

\* an uploaded file: its extension, and its content (no content: 0 bytes)
ExcelUploads ==
    { [department |-> "HR", ext |-> ".xlsx", empty |-> FALSE, rows |-> SheetHR],
      [department |-> "Accounts", ext |-> ".xlsx", empty |-> FALSE, rows |-> SheetAccounts],
      [department |-> "HR", ext |-> ".xlsx", empty |-> TRUE, rows |-> <<>>],
      [department |-> "HR", ext |-> ".csv", empty |-> FALSE, rows |-> SheetHR] }

allowed_exts == {".xlsx", ".xlsm", ".xltx", ".xltm"}

\* dept_dir / f"{department.lower()}_database{ext}"
target_path(department, ext) == lower(department) \o "_database" \o ext

Paths ==
    {target_path("HR", ".xlsx"), target_path("HR", ".xlsm"),
     target_path("Accounts", ".xlsx"), "ghost.xlsx"}

NoFile == [exists |-> FALSE, rows |-> <<>>]

ConditionAlice == <<"Name", "=", "Alice">>

Resign(department) ==
    [OperationIntent("UPDATE", department) EXCEPT
        !.sheet_name = SheetName, !.condition = ConditionAlice,
        !.values = Dict([status |-> "Resigned", employee_name |-> "Alice"])]

SendEmail(department) ==
    [OperationIntent("SEND_EMAIL", department) EXCEPT
        !.employee_name = "Alice", !.subject = "Welcome",
        !.body = <<"Hello ", "Alice">>]

Intents ==
    { OperationIntent("READ", "HR"),
      [OperationIntent("Read", "Accounts") EXCEPT !.excel_path = "ghost.xlsx"],
      [OperationIntent("INSERT", "HR") EXCEPT
          !.values = Dict([Name |-> "Bob", Email |-> "b@x.com"])],
      OperationIntent("INSERT", "HR"),
      Resign("HR"),
      [Resign("HR") EXCEPT !.values = Dict([Status |-> " RESIGNED "])],
      [Resign("hr") EXCEPT !.action = "update",
                           !.excel_path = target_path("HR", ".xlsx"),
                           !.values = Dict([status |-> "Active"])],
      [Resign("HR") EXCEPT !.condition = <<>>],
      [Resign("HR") EXCEPT !.values = List(<<"Resigned">>)],
      [OperationIntent("DELETE", "HR") EXCEPT
          !.sheet_name = SheetName, !.condition = ConditionAlice],
      OperationIntent("DELETE", "HR"),
      OperationIntent("TEMPLATE", "HR"),
      OperationIntent("WORKFLOW", "Accounts"),
      SendEmail("HR"),
      SendEmail("hr"),
      SendEmail("Accounts"),
      [SendEmail("HR") EXCEPT !.email = "b@x.com"],
      [SendEmail("HR") EXCEPT !.email = "alice-at-x"],
      [SendEmail("HR") EXCEPT !.email = " a@x.com "],
      [SendEmail("HR") EXCEPT !.employee_name = None],
      [SendEmail("HR") EXCEPT !.subject = None],
      OperationIntent("ROUTE", "HR") }

Requests ==
    {IntentExecutionRequest("u1", i) : i \in Intents}
        \cup {IntentExecutionRequest("u2", [Resign("HR") EXCEPT
                                              !.excel_path = target_path("HR", ".xlsx")])}

\* what the SMTP transport does with an email handed to send_email
Transports == {"sent", "EmailConfigurationError", "EmailSendError"}

NoExecution ==
    [op |-> "none", request |-> IntentExecutionRequest("", NoIntentFields),
     response |-> HTTPException(0, ""), sent |-> <<>>, effects |-> {},
     before |-> [files |-> [p \in Paths |-> NoFile], email_audits |-> <<>>]]

IdleExec ==
    /\ central_rules = <<>>
    /\ department_rules = <<>>
    /\ department_files = <<>>
    /\ files = [p \in Paths |-> NoFile]
    /\ email_audits = <<>>
    /\ call = NoExecution

NoChat ==
    [op |-> "none", request |-> [user_id |-> "", departments |-> <<>>],
     llm |-> [raised |-> FALSE, reply |-> <<>>], transport |-> "",
     response |-> ChatError(0, ""), prompt |-> NoPrompt, parsed |-> FALSE,
     executions |-> <<>>,
     before |-> [files |-> [p \in Paths |-> NoFile], email_audits |-> <<>>]]

IdleChat == chat = NoChat

\* two callers of excel_insert / excel_update / excel_delete on one path;
\* writer is the caller whose wb.save came last (0: none)
Callers == {1, 2}

NoCaller ==
    [pc |-> "idle", name |-> "none", condition |-> <<>>, values |-> Other,
     loaded |-> <<>>, out |-> Outcome(FALSE, 0, FALSE, <<>>)]

NoRace == [callers |-> [p \in Callers |-> NoCaller], writer |-> 0]

IdleRace == race = NoRace

InitExcel ==
    /\ \E headers \in Headers :
       \E data \in SeqsUpTo([1..Len(headers) -> Values], MaxRows) :
           sheet = wb_save(<<headers>> \o data)
    /\ last = NoCall
    /\ intact = TRUE
    /\ IdleParse
    /\ IdleLookup
    /\ IdleExec
    /\ IdleSend
    /\ IdleChat
    /\ IdleRace

ExcelRead ==
    \E condition \in Conditions :
        /\ last.op = "none"
        /\ intact
        /\ last' = [NoCall EXCEPT !.op = "read", !.condition = condition,
                                  !.before = sheet,
                                  !.rows = excel_read(sheet, condition),
                                  !.out = Outcome(FALSE, 0, FALSE, sheet)]
        /\ UNCHANGED <<sheet, intact, notXlVars>>

ExcelInsert ==
    \E values \in InsertValues :
        /\ last.op = "none"
        /\ intact
        /\ Len(sheet) <= MaxRows
        /\ \E out \in {excel_insert(sheet, values)} :
           /\ sheet' = out.file
           /\ last' = [NoCall EXCEPT !.op = "insert", !.values = values,
                           !.before = sheet,
                           !.normalised = _normalise_insert_values(sheet, values),
                           !.out = out]
        /\ UNCHANGED <<intact, notXlVars>>

ExcelUpdate ==
    \E condition \in Conditions, values \in Mappings :
        /\ last.op = "none"
        /\ intact
        /\ \E out \in {excel_update(sheet, condition, values)} :
           /\ sheet' = out.file
           /\ last' = [NoCall EXCEPT !.op = "update", !.condition = condition,
                           !.values = Dict(values), !.before = sheet, !.out = out]
        /\ UNCHANGED <<intact, notXlVars>>

ExcelDelete ==
    \E condition \in Conditions :
        /\ last.op = "none"
        /\ intact
        /\ \E out \in {excel_delete(sheet, condition)} :
           /\ sheet' = out.file
           /\ last' = [NoCall EXCEPT !.op = "delete", !.condition = condition,
                           !.before = sheet, !.out = out]
        /\ UNCHANGED <<intact, notXlVars>>

\* The process dies in a mutating call, before, inside or after wb.save.
ExcelCrash ==
    \E c \in CrashCalls, crash \in Crashes :
        /\ last.op = "none"
        /\ intact
        /\ c.name = "insert" => Len(sheet) <= MaxRows
        /\ \E out \in {CASE c.name = "insert" -> excel_insert(sheet, c.values)
                          [] c.name = "update" ->
                                 excel_update(sheet, c.condition, c.values.val)
                          [] OTHER -> excel_delete(sheet, c.condition)} :
           /\ sheet' = file_left(sheet, out, crash).rows
           /\ intact' = file_left(sheet, out, crash).intact
           /\ last' = [NoCall EXCEPT !.op = "crash", !.condition = c.condition,
                           !.values = c.values, !.before = sheet, !.out = out,
                           !.interrupted = c.name]
        /\ UNCHANGED notXlVars

\* The caller has taken the result; the next call can start.
ExcelReturn ==
    /\ last.op # "none"
    /\ last' = NoCall
    /\ UNCHANGED <<sheet, intact, notXlVars>>

NextExcel ==
    ExcelRead \/ ExcelInsert \/ ExcelUpdate \/ ExcelDelete \/ ExcelCrash \/ ExcelReturn

SpecExcel == InitExcel /\ [][NextExcel]_vars

(***************************************************************************)
(* SpecRace: two requests run excel_insert / excel_update / excel_delete   *)
(* on the same path at the same time.  Each call loads the workbook        *)
(* (load_workbook_safe), changes its own copy in memory and writes the     *)
(* whole copy back (wb.save); nothing is locked in between.                *)
(***************************************************************************)
RaceCalls ==
    { [name |-> "insert", condition |-> <<>>, values |-> List(<<"1">>)],
      [name |-> "insert", condition |-> <<>>, values |-> List(<<"#1">>)],
      [name |-> "update", condition |-> <<"id", "=", "1">>,
       values |-> Dict([id |-> None])],
      [name |-> "delete", condition |-> <<"id", "=", "1">>, values |-> Other] }

InitRace ==
    /\ \E data \in SeqsUpTo([1..1 -> Values], MaxRows) :
           sheet = wb_save(<< <<"id">> >> \o data)
    /\ last = NoCall
    /\ intact = TRUE
    /\ IdleParse
    /\ IdleLookup
    /\ IdleExec
    /\ IdleSend
    /\ IdleChat
    /\ IdleRace

\* load_workbook_safe(str(resolved)): the caller gets its own copy of the file
LoadWorkbook ==
    \E p \in Callers, c \in RaceCalls :
        /\ race.callers[p].pc = "idle"
        /\ c.name = "insert" => Len(sheet) <= MaxRows
        /\ race' = [race EXCEPT !.callers[p] =
                        [NoCaller EXCEPT !.pc = "loaded", !.name = c.name,
                                         !.condition = c.condition,
                                         !.values = c.values, !.loaded = sheet]]
        /\ UNCHANGED <<sheet, notRaceVars>>

\* the rest of the call: the change of the copy and wb.save(resolved)
SaveWorkbook ==
    \E p \in Callers :
        /\ race.callers[p].pc = "loaded"
        /\ \E c \in {race.callers[p]} :
           \E out \in {CASE c.name = "insert" -> excel_insert(c.loaded, c.values)
                          [] c.name = "update" ->
                                 excel_update(c.loaded, c.condition, c.values.val)
                          [] OTHER -> excel_delete(c.loaded, c.condition)} :
               /\ sheet' = save_resolved(sheet, out)
               /\ race' = [race EXCEPT !.callers[p].pc = "returned",
                                       !.callers[p].out = out,
                                       !.writer = IF out.saved THEN p ELSE @]
        /\ UNCHANGED notRaceVars

\* The caller has taken the result; its next call can start.
CallerReturn ==
    \E p \in Callers :
        /\ race.callers[p].pc = "returned"
        /\ race' = [race EXCEPT !.callers[p] = NoCaller,
                                !.writer = IF @ = p THEN 0 ELSE @]
        /\ UNCHANGED <<sheet, notRaceVars>>

NextRace == LoadWorkbook \/ SaveWorkbook \/ CallerReturn

SpecRace == InitRace /\ [][NextRace]_vars

InitParse ==
    /\ \E ss \in SeqsUpTo(Segments, MaxBlocks) : reply = Flatten(ss)
    /\ parseDone = FALSE
    /\ intents = <<>>
    /\ IdleExcel
    /\ IdleLookup
    /\ IdleExec
    /\ IdleSend
    /\ IdleChat
    /\ IdleRace

ParseReply ==
    /\ ~ parseDone
    /\ parseDone' = TRUE
    /\ intents' = parse_intents_from_text(reply)
    /\ UNCHANGED <<reply, xlVars, lookupVars, execVars, sendVars, chatVars, raceVars>>

NextParse == ParseReply

SpecParse == InitParse /\ [][NextParse]_vars


(***************************************************************************)
(* SpecLookup: one name lookup on a sheet with a header row whose          *)
(* normalised names are pairwise distinct.                                 *)
(***************************************************************************)
LookupHeaders ==
    { <<"Name", "Email">>,
      <<" employee_name ", " E-MAIL ">>,
      <<"Full_Name", "Email_Address">>,
      <<"Email", "Name">>,                 \* the email column first
      <<"Full_Name", "Name", "Mail">>,     \* two name columns
      <<"Name", "Mail", "Email">>,         \* two email columns
      <<"id", "Email">>,                   \* no name column
      <<"Name", "phone">> }                \* no email column

NameCells == {"Alice", " alice ", None}
EmailCells == {"a@x.com", "b@x.com", None}
LookupNames == {"ALICE ", "Alice", "Bob", "nan"}

IsNameHeader(h) == \E i \in 1..Len(name_candidates) : name_candidates[i] = lower_strip(h)
IsEmailHeader(h) ==
    \E i \in 1..Len(email_candidates) : email_candidates[i] = lower_strip(h)

CellsOf(h) == IF IsNameHeader(h) THEN NameCells
              ELSE IF IsEmailHeader(h) THEN EmailCells ELSE {"7"}

LookupRows(headers) ==
    {row \in [1..Len(headers) -> NameCells \cup EmailCells \cup {"7"}] :
        \A c \in 1..Len(headers) : row[c] \in CellsOf(headers[c])}

InitLookup ==
    /\ \E headers \in LookupHeaders, readable \in BOOLEAN :
       \E data \in SeqsUpTo(LookupRows(headers), MaxHrRows) :
           lkFile = [readable |-> readable, rows |-> <<headers>> \o data]
    /\ lkName \in LookupNames
    /\ lkFound = Pending
    /\ IdleExcel
    /\ IdleParse
    /\ IdleExec
    /\ IdleSend
    /\ IdleChat
    /\ IdleRace

Lookup ==
    /\ lkFound = Pending
    /\ lkFound' = lookup_email_by_name(lkFile, lkName)
    /\ UNCHANGED <<lkFile, lkName, xlVars, parseVars, execVars, sendVars, chatVars,
                       raceVars>>

NextLookup == Lookup

SpecLookup == InitLookup /\ [][NextLookup]_vars

(***************************************************************************)
(* SpecSend: one call of send_email, step by step.                         *)
(***************************************************************************)
InitSend ==
    /\ \E env \in SmtpEnvs :
           smtp = [pc |-> "called", env |-> env, attempt |-> 0, last_exc |-> None,
                   trace |-> <<>>, raised |-> None]
    /\ IdleExcel
    /\ IdleParse
    /\ IdleLookup
    /\ IdleExec
    /\ IdleChat
    /\ IdleRace

\* line 61: the credentials are read before anything else; lines 63-74
\* build the message and enter the loop
GetCredentials ==
    /\ smtp.pc = "called"
    /\ smtp' = IF _get_smtp_credentials(smtp.env) # None
               THEN [smtp EXCEPT !.pc = "raised",
                                 !.raised = _get_smtp_credentials(smtp.env)]
               ELSE [smtp EXCEPT !.pc = "attempting", !.attempt = 1]
    /\ UNCHANGED notSendVars

\* lines 75-91: one SMTP session; return on success, remember the exception
\* otherwise
SmtpSession ==
    /\ smtp.pc = "attempting"
    /\ \E outcome \in SmtpOutcomes :
           smtp' = IF outcome = "ok"
                   THEN [smtp EXCEPT !.pc = "returned",
                                     !.trace = Append(@, Session(smtp.attempt, outcome))]
                   ELSE [smtp EXCEPT !.pc = IF smtp.attempt < max_attempts
                                            THEN "sleeping" ELSE "exhausted",
                                     !.last_exc = outcome,
                                     !.trace = Append(@, Session(smtp.attempt, outcome))]
    /\ UNCHANGED notSendVars

\* lines 91-93, then the next iteration of the loop
TimeSleep ==
    /\ smtp.pc = "sleeping"
    /\ smtp' = [smtp EXCEPT !.pc = "attempting",
                            !.attempt = @ + 1,
                            !.trace = Append(@, Sleep(smtp.attempt, backoff(smtp.attempt)))]
    /\ UNCHANGED notSendVars

\* lines 95-98: all attempts failed
RaiseSendError ==
    /\ smtp.pc = "exhausted"
    /\ smtp' = [smtp EXCEPT !.pc = "raised", !.raised = "EmailSendError"]
    /\ UNCHANGED notSendVars

NextSend == GetCredentials \/ SmtpSession \/ TimeSleep \/ RaiseSendError

SpecSend == InitSend /\ [][NextSend]_vars

(***************************************************************************)
(* Spec: uploads and intent executions against one database.               *)
(***************************************************************************)
Database == [central_rules |-> central_rules, department_rules |-> department_rules,
       department_files |-> department_files, files |-> files,
       email_audits |-> email_audits]

Init ==
    /\ central_rules \in StoredCentralRules
    /\ department_rules = <<>>
    /\ department_files = <<>>
    /\ files = [p \in Paths |-> NoFile]
    /\ email_audits = <<>>
    /\ call = NoExecution
    /\ IdleExcel
    /\ IdleParse
    /\ IdleLookup
    /\ IdleSend
    /\ IdleChat
    /\ IdleRace

Stored == Len(central_rules) + Len(department_rules) + Len(department_files)

\* upload_central_rules (app/routers/central_rules.py)
UploadCentralRules ==
    \E user_id \in Users, rule_text \in CentralDocs :
        /\ call.op = "none"
        /\ chat.op = "none"
        /\ Stored < MaxStored
        /\ user_id = "u2" => rule_text = DocUpdate
        /\ central_rules' = Append(central_rules, CentralRule(user_id, rule_text, FALSE))
        /\ UNCHANGED <<department_rules, department_files, files, email_audits, call,
                       notExecVars>>

\* upload_department_rules (app/routers/departments.py)
UploadDepartmentRules ==
    \E doc \in DepartmentDocs :
        /\ call.op = "none"
        /\ chat.op = "none"
        /\ Stored < MaxStored
        /\ department_rules' =
               Append(department_rules,
                      [user_id |-> "u1", department |-> doc[1], rule_text |-> doc[2]])
        /\ UNCHANGED <<central_rules, department_files, files, email_audits, call,
                       notExecVars>>

\* upload_department_excel (app/routers/departments.py)
UploadDepartmentExcel ==
    \E upload \in ExcelUploads :
        LET path == target_path(upload.department, upload.ext) IN
        /\ call.op = "none"
        /\ chat.op = "none"
        /\ IF upload.ext \notin allowed_exts
           THEN UNCHANGED <<department_files, files>>
           ELSE IF upload.empty
           THEN /\ files' = [files EXCEPT ![path] = NoFile]
                /\ UNCHANGED department_files
           ELSE /\ Stored < MaxStored
                /\ files' = [files EXCEPT ![path] = [exists |-> TRUE, rows |-> upload.rows]]
                /\ department_files' =
                       Append(department_files,
                              [user_id |-> "u1", department |-> upload.department,
                               excel_path |-> path])
        /\ UNCHANGED <<central_rules, department_rules, email_audits, call, notExecVars>>

\* execute_intent (app/routers/intent.py)
ExecuteIntent ==
    \E request \in Requests, transport \in Transports, flag_error \in BOOLEAN :
        /\ call.op = "none"
        /\ upper(request.intent.action) = "INSERT" =>
               \A p \in Paths : Len(files[p].rows) <= MaxRows
        \* only SEND_EMAIL and the cascade of UPDATE reach the transport, only
        \* the cascade the flag lookup
        /\ upper(request.intent.action) \notin {"UPDATE", "SEND_EMAIL"} =>
               transport = "sent"
        /\ upper(request.intent.action) # "UPDATE" => ~ flag_error
        /\ \E result \in {execute_intent(Database, request,
                                          [transport |-> transport,
                                           flag_error |-> flag_error])} :
           /\ files' = result.files
           /\ email_audits' = result.email_audits
           /\ call' = [op |-> "execute_intent", request |-> request,
                       response |-> result.response, sent |-> result.sent,
                       effects |-> result.effects,
                       before |-> [files |-> files, email_audits |-> email_audits]]
        /\ UNCHANGED <<central_rules, department_rules, department_files, notExecVars>>

\* The caller has taken the response; the next request can start.
Return ==
    /\ call.op # "none"
    /\ call' = NoExecution
    /\ UNCHANGED <<central_rules, department_rules, department_files, files,
                   email_audits, notExecVars>>

Next ==
    \/ UploadCentralRules
    \/ UploadDepartmentRules
    \/ UploadDepartmentExcel
    \/ ExecuteIntent
    \/ Return

Spec == Init /\ [][Next]_vars

(***************************************************************************)
(* SpecChat: uploads and chat requests against one database.               *)
(***************************************************************************)
InitChat ==
    /\ central_rules = <<>>
    /\ department_rules \in
           {<<>>, <<[user_id |-> "u1", department |-> "HR", rule_text |-> OlderTemplateHR]>>}
    /\ \E older \in BOOLEAN :
           /\ department_files =
                  (IF older
                   THEN <<[user_id |-> "u1", department |-> "HR",
                           excel_path |-> target_path("HR", ".xlsm")]>>
                   ELSE <<>>)
           /\ files = [p \in Paths |->
                          IF older /\ p = target_path("HR", ".xlsm")
                          THEN [exists |-> TRUE, rows |-> OlderSheetHR] ELSE NoFile]
    /\ email_audits = <<>>
    /\ call = NoExecution
    /\ chat = NoChat
    /\ IdleExcel
    /\ IdleParse
    /\ IdleLookup
    /\ IdleSend
    /\ IdleRace

\* workpal_chat (app/routers/workpal.py)
WorkpalChat ==
    \E request \in ChatRequests, c \in ChatCalls :
        /\ chat.op = "none"
        /\ Stored <= MaxChatStored
        /\ \E result \in {workpal_chat(Database, request, c.llm,
                                       [transport |-> c.transport, flag_error |-> FALSE])} :
           /\ files' = result.files
           /\ email_audits' = result.email_audits
           /\ chat' = [op |-> "workpal_chat", request |-> request, llm |-> c.llm,
                       transport |-> c.transport,
                       response |-> result.response, prompt |-> result.prompt,
                       parsed |-> result.parsed, executions |-> result.executions,
                       before |-> [files |-> files, email_audits |-> email_audits]]
        /\ UNCHANGED <<central_rules, department_rules, department_files, call,
                       notExecChatVars>>

\* The caller has taken the response; the next request can start.
ChatReturn ==
    /\ chat.op # "none"
    /\ chat' = NoChat
    /\ UNCHANGED <<execVars, notExecChatVars>>

NextChat ==
    \/ UploadCentralRules
    \/ UploadDepartmentRules
    \/ UploadDepartmentExcel
    \/ WorkpalChat
    \/ ChatReturn

SpecChat == InitChat /\ [][NextChat]_vars

(***************************************************************************)
(* Claims about the Chat Orchestrator, checked under SpecChat.             *)
(***************************************************************************)
ChatDone == chat.op = "workpal_chat"

\* the reply is empty, or white space around nothing, "<s>" or "</s>"
SentinelReply ==
    LET core == SelectSeq(chat.llm.reply, LAMBDA t : t \notin Whitespace) IN
    /\ ~ chat.llm.raised
    /\ \/ core = <<>>
       \/ Len(core) = 1 /\ core[1] \in {"<s>", "</s>"}

UsableReply == ~ chat.llm.raised /\ ~ SentinelReply

\* C14: when the LLM reply is empty or, trimmed, is "", "<s>" or "</s>",
\* workpal_chat answers with the fixed fallback message, without intents and
\* without results; the reply is not parsed and nothing is executed: the
\* spreadsheets and the audit table are as before.
C14_FallbackWithoutExecution ==
    (ChatDone /\ SentinelReply) =>
        /\ chat.response.kind = "WorkPalChatResponse"
        /\ chat.response.reply = <<FallbackMessage>>
        /\ chat.response.intent = NoIntentGiven
        /\ chat.response.execution_result = NoResultGiven
        /\ chat.response.intents = <<>>
        /\ chat.response.execution_results = <<>>
        /\ ~ chat.parsed
        /\ chat.executions = <<>>
        /\ files = chat.before.files
        /\ email_audits = chat.before.email_audits

\* the reply "</s>" between white space got the fallback message, with the
\* HR sheet registered
C14_Witness ==
    /\ ChatDone
    /\ chat.llm.reply = <<" ", "</s>", "\n">>
    /\ chat.response.reply = <<FallbackMessage>>
    /\ \E i \in 1..Len(department_files) : department_files[i].department = "HR"

Raised(k) == chat.executions[k].response.kind = "HTTPException"

\* the executions are those of the parsed intents, first to last, each on
\* the database the one before has left, up to the first that raises
InTextualOrder(parsed) ==
    /\ Len(chat.executions) <= Len(parsed)
    /\ \A k \in 1..Len(chat.executions) :
           /\ chat.executions[k].intent = parsed[k]
           /\ chat.executions[k].before =
                  (IF k = 1 THEN chat.before ELSE chat.executions[k - 1].after)
           /\ Raised(k) => k = Len(chat.executions)
    /\ files = (IF chat.executions = <<>> THEN chat.before.files
                ELSE chat.executions[Len(chat.executions)].after.files)
    /\ (Len(chat.executions) < Len(parsed)) =>
           chat.executions # <<>> /\ Raised(Len(chat.executions))

OneResultPerIntent(parsed) ==
    /\ chat.response.kind = "WorkPalChatResponse"
    /\ chat.response.reply = chat.llm.reply
    /\ chat.response.intents = parsed
    /\ Len(chat.executions) = Len(parsed)
    /\ Len(chat.response.execution_results) = Len(parsed)
    /\ \A k \in 1..Len(parsed) :
           /\ chat.response.execution_results[k].success =
                  chat.executions[k].response.success
           /\ chat.response.execution_results[k].message =
                  chat.executions[k].response.message
           /\ chat.response.execution_results[k].data = chat.executions[k].response.data
    /\ chat.response.intent = (IF parsed = <<>> THEN NoIntentGiven ELSE parsed[1])
    /\ chat.response.execution_result =
           (IF parsed = <<>> THEN NoResultGiven
            ELSE chat.response.execution_results[Len(parsed)])

\* C15 as stated: for a usable reply the parsed intents are executed in
\* textual order and the response has one result for each parsed intent in
\* that order, the first parsed intent as primary intent and the result of
\* the last parsed intent as primary result.
C15_OneResultPerIntent ==
    (ChatDone /\ UsableReply) =>
        \A parsed \in {operation_intents(chat.llm.reply)} :
            InTextualOrder(parsed) /\ OneResultPerIntent(parsed)

\* C15 (amended): for a usable reply the parsed intents are executed one at
\* a time in textual order until one raises an error; when none raises the
\* response has one result for each parsed intent in that order, the first
\* parsed intent as primary intent and the result of the last parsed intent
\* as primary result; when one raises, the request fails with that error.
C15_OneResultPerIntentUnlessRaised ==
    (ChatDone /\ UsableReply) =>
        \A parsed \in {operation_intents(chat.llm.reply)} :
            /\ InTextualOrder(parsed)
            /\ (\A k \in 1..Len(chat.executions) : ~ Raised(k)) =>
                   OneResultPerIntent(parsed)
            /\ \A k \in 1..Len(chat.executions) : Raised(k) =>
                   /\ chat.response.kind = "HTTPException"
                   /\ chat.response.status_code =
                          chat.executions[k].response.status_code

\* DELETE then READ: two results in that order, the READ after the DELETE
\* finds no row, the DELETE intent and the READ result are the primary ones
C15_Witness ==
    /\ ChatDone
    /\ chat.llm.reply = ChatDeleteAlice \o BlockReadHR
    /\ chat.response.kind = "WorkPalChatResponse"
    /\ Len(chat.response.execution_results) = 2
    /\ chat.response.execution_results[1].message = "DELETE completed for 1 rows"
    /\ chat.response.execution_results[2].data.kind = "rows"
    /\ chat.response.execution_results[2].data.rows = <<>>
    /\ chat.response.intent.action = "DELETE"
    /\ chat.response.execution_result = chat.response.execution_results[2]

\* the records of a user and department in a table, and the one created last
RecordsOf(table, user_id, department) ==
    {i \in 1..Len(table) :
        table[i].user_id = user_id /\ table[i].department = department}

Newest(table, user_id, department) ==
    table[CHOOSE i \in RecordsOf(table, user_id, department) :
              \A j \in RecordsOf(table, user_id, department) : j <= i]

IsPrefix(s, t) == Len(s) <= Len(t) /\ SubSeq(t, 1, Len(s)) = s

\* an upload only appends to the tables
OnlyAppended ==
    /\ IsPrefix(central_rules, central_rules')
    /\ IsPrefix(department_rules, department_rules')
    /\ IsPrefix(department_files, department_files')

\* the prompt has, for every department asked for, the text of the newest
\* rule document of the user and department
PromptUsesNewest ==
    \A i \in 1..Len(chat.prompt.sections) :
        LET d == chat.prompt.sections[i].dept IN
        chat.prompt.sections[i].text =
            (IF RecordsOf(department_rules, chat.request.user_id, d) = {}
             THEN <<"(no rules provided)">>
             ELSE Newest(department_rules, chat.request.user_id, d).rule_text)

\* the k-th execution of the chat has used the newest registration, or the
\* newest rule document, of the user and the department of its intent
ExecutionUsesNewest(k) ==
    LET e == chat.executions[k]
        u == chat.request.user_id
        d == e.intent.department
        done == e.response.kind # "HTTPException" /\ e.response.success
        path == Newest(department_files, u, d).excel_path
        hr == Newest(department_files, u, "HR").excel_path
    IN /\ (e.intent.action = "READ" /\ done) =>
              e.response.data.rows =
                  excel_read(e.before.files[path].rows, e.intent.condition)
       /\ (e.intent.action = "DELETE" /\ done) =>
              \A p \in Paths \ {path} : e.after.files[p] = e.before.files[p]
       /\ (e.intent.action = "SEND_EMAIL" /\ e.sent # <<>>) =>
              \E r \in 2..Len(e.before.files[hr].rows) :
                  /\ e.before.files[hr].rows[r][1] = e.intent.employee_name
                  /\ e.before.files[hr].rows[r][2] = e.sent[1].to_email
       /\ (e.intent.action = "TEMPLATE" /\ done) =>
              e.response.data.rule_text = Newest(department_rules, u, d).rule_text

LookupsUseNewest ==
    ChatDone =>
        /\ PromptUsesNewest
        /\ \A k \in 1..Len(chat.executions) : ExecutionUsesNewest(k)

\* C17: rule documents and spreadsheet registrations are only appended, and
\* every default lookup for a user and department (the spreadsheet path of
\* READ and DELETE, the HR path of the email resolution, the rule text of
\* TEMPLATE and of the prompt) uses the record created last.
C17_LookupsUseNewestRecord == [] LookupsUseNewest /\ [][OnlyAppended]_vars

\* with the HR sheet registered twice at different paths, a READ for HR got
\* the rows of the sheet registered last
C17_Witness ==
    /\ ChatDone
    /\ Len(department_files) = 2
    /\ department_files[1].excel_path = target_path("HR", ".xlsm")
    /\ department_files[2].excel_path = target_path("HR", ".xlsx")
    /\ files[target_path("HR", ".xlsm")].rows = OlderSheetHR
    /\ chat.llm.reply = BlockReadHR
    /\ chat.response.kind = "WorkPalChatResponse"
    /\ chat.response.execution_results[1].data.rows = excel_read(SheetHR, <<>>)
    /\ excel_read(SheetHR, <<>>) # excel_read(OlderSheetHR, <<>>)

(***************************************************************************)
(* Claims about the Email Sender, checked under SpecSend.                  *)
(***************************************************************************)
Sessions == {i \in 1..Len(smtp.trace) : smtp.trace[i].ev = "session"}
Sleeps == {i \in 1..Len(smtp.trace) : smtp.trace[i].ev = "sleep"}
FailedSessions == {i \in Sessions : smtp.trace[i].outcome # "ok"}

CredentialsMissing ==
    \/ smtp.env.SMTP_SENDER_EMAIL \in {None, ""}
    \/ smtp.env.SMTP_SENDER_PASSWORD \in {None, ""}

\* the seconds slept, in order
RECURSIVE SecondsSlept(_)
SecondsSlept(n) ==
    IF n = 0 THEN <<>>
    ELSE IF smtp.trace[n].ev = "sleep"
         THEN Append(SecondsSlept(n - 1), smtp.trace[n].seconds)
         ELSE SecondsSlept(n - 1)

\* C13: send_email makes at most 3 transport attempts; a successful attempt
\* is the last thing it does and it returns; between failed attempts it
\* sleeps 1 and then 2 seconds and it does not sleep after the last one;
\* after 3 failed attempts it raises EmailSendError; with missing sender
\* credentials it raises EmailConfigurationError without any attempt.
C13_BoundedRetries ==
    smtp.pc # "none" =>
        /\ Cardinality(Sessions) <= 3
        /\ \A i \in Sessions : smtp.trace[i].outcome = "ok" =>
               i = Len(smtp.trace) /\ smtp.pc = "returned"
        /\ smtp.pc = "returned" =>
               smtp.trace # <<>> /\ smtp.trace[Len(smtp.trace)].outcome = "ok"
        /\ SecondsSlept(Len(smtp.trace)) \in {<<>>, <<1>>, <<1, 2>>}
        /\ \A i \in Sleeps : i > 1 /\ (i - 1) \in FailedSessions
        /\ \A i \in FailedSessions :
               (i < Len(smtp.trace) /\ Cardinality({j \in Sessions : j <= i}) < 3)
                   => (i + 1) \in Sleeps /\ (i + 2 <= Len(smtp.trace) => (i + 2) \in Sessions)
        /\ Cardinality(FailedSessions) = 3 =>
               /\ smtp.pc \in {"exhausted", "raised"}
               /\ smtp.trace[Len(smtp.trace)].ev = "session"
               /\ smtp.pc = "raised" => smtp.raised = "EmailSendError"
        /\ (smtp.pc = "raised" /\ smtp.raised = "EmailSendError") =>
               Cardinality(FailedSessions) = 3 /\ Cardinality(Sleeps) = 2
        /\ CredentialsMissing =>
               /\ smtp.trace = <<>>
               /\ smtp.pc \in {"called", "raised"}
               /\ smtp.pc = "raised" => smtp.raised = "EmailConfigurationError"

\* three sessions failed with sleeps of 1 and 2 seconds between them, and
\* EmailSendError was raised
C13_Witness ==
    /\ smtp.pc = "raised"
    /\ smtp.raised = "EmailSendError"
    /\ Len(smtp.trace) = 5
    /\ SecondsSlept(5) = <<1, 2>>
    /\ smtp.trace[5].ev = "session"

(***************************************************************************)
(* Claims about the Row Store, checked under SpecExcel.                    *)
(***************************************************************************)
\* A condition of the form column=value, and the column it names
WellFormed(condition) == \E i \in 1..Len(condition) : condition[i] = "="

ColumnInHeader(g, condition) ==
    \E c \in 1..Len(header_row(g)) :
        header_row(g)[c] = parse_simple_condition(condition).column

Keys(record) == [j \in 1..Len(record) |-> record[j][1]]
Cells(record) == [j \in 1..Len(record) |-> record[j][2]]

Distinct(headers) ==
    \A a, b \in 1..Len(headers) : headers[a] = headers[b] => a = b

\* C3: excel_update and excel_delete with a well-formed condition on a column
\* that is not in the header row return 0 and do not rewrite the file.
C3_MissingColumnIsNoOp ==
    ( /\ last.op \in {"update", "delete"}
      /\ WellFormed(last.condition)
      /\ ~ ColumnInHeader(last.before, last.condition) )
    => ( /\ ~ last.out.raised
         /\ last.out.count = 0
         /\ ~ last.out.saved
         /\ sheet = last.before )

C3_Witness ==
    /\ last.op = "delete"
    /\ WellFormed(last.condition)
    /\ ~ ColumnInHeader(last.before, last.condition)
    /\ Len(last.before) > 2

\* C4 as stated: excel_read without a condition returns, for every data row
\* in row order, a mapping whose keys are the header values in header order
\* and whose values are the cells of the row.
C4_ReadAnyHeader ==
    (last.op = "read" /\ last.condition = <<>>)
    => ( /\ Len(last.rows) = Len(last.before) - 1
         /\ \A r \in 1..Len(last.rows) :
                /\ Keys(last.rows[r]) = header_row(last.before)
                /\ Cells(last.rows[r]) = last.before[r + 1] )

\* C4 as amended: the same, for a header row whose values are pairwise
\* distinct; the number of mappings is the number of data rows for any header.
C4_ReadDistinctHeader ==
    (last.op = "read" /\ last.condition = <<>>)
    => ( /\ Len(last.rows) = Len(last.before) - 1
         /\ Distinct(header_row(last.before))
            => \A r \in 1..Len(last.rows) :
                   /\ Keys(last.rows[r]) = header_row(last.before)
                   /\ Cells(last.rows[r]) = last.before[r + 1] )

C4_Witness ==
    /\ last.op = "read"
    /\ last.condition = <<>>
    /\ Distinct(header_row(last.before))
    /\ Len(header_row(last.before)) = 2
    /\ Len(last.rows) = 2
    /\ last.rows[1] # last.rows[2]

\* C5: on a sheet with a header, a mapping is normalised to the header's
\* columns in header order with None for a missing key, a sequence is padded
\* with None or cut to the header's length; the normalised row is as long as
\* the header.
C5_NormalisedRow ==
    (last.op = "insert" /\ last.values.kind \in {"dict", "list"})
    => LET headers == header_row(last.before)
           row == last.normalised.row
           v == last.values.val
       IN /\ last.normalised.ok
          /\ Len(row) = Len(headers)
          /\ last.values.kind = "dict" =>
                \A i \in 1..Len(headers) :
                    row[i] = IF headers[i] \in DOMAIN v THEN v[headers[i]] ELSE None
          /\ last.values.kind = "list" =>
                \A i \in 1..Len(headers) :
                    row[i] = IF i <= Len(v) THEN v[i] ELSE None

C5_Witness ==
    /\ last.op = "insert"
    /\ last.values.kind = "list"
    /\ Len(last.values.val) > Len(header_row(last.before))
    /\ last.values.val[Len(last.values.val)] # None

\* The mapping excel_read builds for a row of the sheet
RowMapping(g, row) == record_of(header_row(g), row, Len(header_row(g)))

\* C6 as stated: after a successful excel_insert, excel_read without a
\* condition returns the rows that were readable before, in the same order,
\* and after them a mapping equal to the normalised row.
C6_RoundTripAnyRow ==
    (last.op = "insert" /\ ~ last.out.raised)
    => excel_read(sheet, <<>>)
           = excel_read(last.before, <<>>)
                \o <<RowMapping(last.before, last.normalised.row)>>

\* C6 as amended: that holds when the normalised row has a cell that is not
\* None; a row of None only is not stored, and the read returns what it
\* returned before.
C6_RoundTripStoredRow ==
    (last.op = "insert" /\ ~ last.out.raised)
    => IF \E i \in 1..Len(last.normalised.row) : last.normalised.row[i] # None
       THEN excel_read(sheet, <<>>)
                = excel_read(last.before, <<>>)
                     \o <<RowMapping(last.before, last.normalised.row)>>
       ELSE excel_read(sheet, <<>>) = excel_read(last.before, <<>>)

C6_Witness ==
    /\ last.op = "insert"
    /\ ~ last.out.raised
    /\ Len(last.before) = 2
    /\ \E i \in 1..Len(last.normalised.row) : last.normalised.row[i] # None
    /\ Len(excel_read(sheet, <<>>)) = 2

\* C16: a mutating Row Store call rewrites the file atomically: when the
\* process dies at any point of the call, the file at the path is a complete
\* workbook with either the rows before the call or the rows the call
\* writes.
C16_RewriteIsAtomic ==
    last.op = "crash" => intact /\ sheet \in {last.before, last.out.file}

\* an excel_update that matched a row was interrupted inside wb.save and
\* the file at the path is no longer a workbook
C16_Witness ==
    /\ last.op = "crash"
    /\ last.interrupted = "update"
    /\ last.out.count = 1
    /\ Len(last.before) = 2
    /\ ~ intact

(***************************************************************************)
(* Claims about the name lookup, checked under SpecLookup.                 *)
(***************************************************************************)
LkHeader(c) == lower_strip(lkFile.rows[1][c])

LkColumns == 1..Len(lkFile.rows[1])

\* column c is the first present one of the candidate names, in their order
FirstPresentColumn(c, names) ==
    \E i \in 1..Len(names) :
        /\ LkHeader(c) = names[i]
        /\ \A j \in 1..(i - 1) : \A d \in LkColumns : LkHeader(d) # names[j]

NoColumnOf(names) ==
    \A c \in LkColumns : \A i \in 1..Len(names) : LkHeader(c) # names[i]

LkNameNames == <<"name", "employee_name", "full_name">>
LkEmailNames == <<"email", "e-mail", "email_address", "mail">>

\* the data rows whose text in column c is the looked up name, both trimmed
\* and lowercased
MatchingRows(c) ==
    {r \in 2..Len(lkFile.rows) :
        lower_strip(astype_str(lkFile.rows[r][c])) = lower_strip(lkName)}

HasMarker(user_id, word, action, department) ==
    \E i \in 1..Len(central_rules) :
        /\ central_rules[i].user_id = user_id
        /\ LET t == central_rules[i].rule_text IN
           \E k \in 1..(Len(t) - 4) :
               /\ lower(t[k]) = word
               /\ t[k + 1] = " "
               /\ lower(t[k + 2]) = lower(action)
               /\ t[k + 3] = " "
               /\ lower(t[k + 4]) = lower(department)

GateDepartments == {"HR", "hr", "Accounts"}
GateActions == {"UPDATE", "update", "READ", "SEND_EMAIL", "DELETE"}

\* C1: check_authority returns (false, false, _) when the user's central rule
\* text holds the marker "disallow <action> <department>", (false, true, _)
\* when it holds "approval <action> <department>" instead, and (true, false, _)
\* when it holds neither, whatever the letter case of action, department and
\* rule text.  The table changes only between calls, so that the states
\* without a call in progress have every table that is reached.
C1_GateFollowsMarkers ==
    call.op = "none" =>
    \A user_id \in Users, department \in GateDepartments, action \in GateActions :
        \A r \in {check_authority(central_rules, user_id, department, action)},
           disallow \in {HasMarker(user_id, "disallow", action, department)},
           approval \in {HasMarker(user_id, "approval", action, department)} :
           /\ disallow => (~ r.allowed /\ ~ r.requires_approval)
           /\ (~ disallow /\ approval) => (~ r.allowed /\ r.requires_approval)
           /\ (~ disallow /\ ~ approval) => (r.allowed /\ ~ r.requires_approval)

Executed == call.op = "execute_intent"

CallAction == upper(call.request.intent.action)

CallGate ==
    check_authority(central_rules, call.request.user_id,
                    call.request.intent.department, CallAction)

PolicyMessage == "This action cannot be performed due to company policy restrictions."
ApprovalMessage == "This action requires approval based on company authority rules."

\* an UPDATE on HR was refused for the mixed-case document "Disallow UPDATE HR"
C1_Witness ==
    /\ Executed
    /\ CallAction = "UPDATE"
    /\ call.request.intent.department = "hr"
    /\ \E i \in 1..Len(central_rules) :
           /\ central_rules[i].user_id = call.request.user_id
           /\ central_rules[i].rule_text = DocUpdate
    /\ call.response.message = PolicyMessage

NothingHappened ==
    /\ files = call.before.files
    /\ email_audits = call.before.email_audits
    /\ call.sent = <<>>
    /\ call.effects = {}
    /\ call.response.data.kind = "none"

\* C2: when the Authority Gate does not allow the intent's (action,
\* department), execute_intent returns a response with success=false and the
\* approval or policy message, raises nothing, and nothing is executed: no
\* spreadsheet is read or written, no rule document is looked up, no email is
\* sent and no audit record is written.
C2_DeniedIsUnexecuted ==
    Executed =>
        \A gate \in {CallGate} :
            ~ gate.allowed =>
                /\ call.response.kind = "IntentExecutionResponse"
                /\ ~ call.response.success
                /\ call.response.message =
                       (IF gate.requires_approval THEN ApprovalMessage ELSE PolicyMessage)
                /\ NothingHappened

\* a DELETE that would have removed Alice's row was refused
C2_Witness ==
    /\ Executed
    /\ ~ CallGate.allowed
    /\ CallAction = "DELETE"
    /\ call.request.intent.condition = ConditionAlice
    /\ files[target_path("HR", ".xlsx")] = [exists |-> TRUE, rows |-> SheetHR]
    /\ \E i \in 1..Len(department_files) : department_files[i].department = "HR"

\* the UPDATE of the call is allowed, sets a status of 'resigned' and names the
\* employee, the user's flag is set, the email of the employee can be looked
\* up in the user's latest HR spreadsheet, and sending for HR is allowed
ResignationCase ==
    /\ Executed
    /\ CallAction = "UPDATE"
    /\ CallGate.allowed
    /\ call.response.success
    /\ LET values == call.request.intent.values.val
           hr == latest(department_files, call.request.user_id, "HR")
       IN /\ \E k \in DOMAIN values :
                 lower_strip(k) = "status" /\ lower_strip(values[k]) = "resigned"
          /\ "employee_name" \in DOMAIN values
          /\ central_rules_get_flag(call.request.user_id, "auto_send_on_resignation",
                                    central_rules)
          /\ hr.found
          /\ files[hr.row.excel_path].exists
          /\ email_re_match(lookup_email_by_name(
                 [readable |-> TRUE, rows |-> files[hr.row.excel_path].rows],
                 values["employee_name"]))
    /\ check_authority(central_rules, call.request.user_id, "HR", "SEND_EMAIL").allowed
    /\ "flag_raised" \notin call.effects

\* C8: in the resignation case execute_intent returns success for the
\* UPDATE, the Email Sender is invoked, and exactly one Email Audit record is
\* written, with status SENT if the send succeeded and FAILED otherwise.
C8_CascadeWritesOneAudit ==
    ResignationCase =>
        /\ call.response.success
        /\ Len(call.sent) = 1
        /\ Len(email_audits) = Len(call.before.email_audits) + 1
        /\ email_audits[Len(email_audits)].status =
               (IF call.sent[1].outcome = "sent" THEN "SENT" ELSE "FAILED")

\* the resignation case ran, the email went out, and the audit table is as
\* it was
C8_Witness ==
    /\ ResignationCase
    /\ Len(call.sent) = 1
    /\ call.sent[1].to_email = "a@x.com"
    /\ call.sent[1].outcome = "sent"
    /\ email_audits = call.before.email_audits

\* the path an intent of the call names or, without one, the path of the
\* latest registration of its user and department before the call
CallPath ==
    LET intent == call.request.intent
        reg == latest(department_files, call.request.user_id, intent.department)
    IN IF Truthy(intent.excel_path) THEN intent.excel_path
       ELSE IF reg.found THEN reg.row.excel_path ELSE "ghost.xlsx"

\* the call is an allowed UPDATE with sheet, condition and a mapping, on a
\* file that exists: its spreadsheet update succeeds
UpdateSucceeds ==
    /\ Executed
    /\ CallAction = "UPDATE"
    /\ CallGate.allowed
    /\ call.request.intent.sheet_name = SheetName
    /\ call.request.intent.condition # <<>>
    /\ call.request.intent.values.kind = "dict"
    /\ call.before.files[CallPath].exists

\* the rows of the file before the call that the condition Name=Alice selects
RowsOfAlice ==
    LET g == call.before.files[CallPath].rows IN
    {r \in 2..Len(g) : \E c \in 1..Len(g[1]) : g[1][c] = "Name" /\ g[r][c] = "Alice"}

CascadeFailures == {"flag_raised", "nested_raised", "audit_raised"}

\* C11: once the spreadsheet update of an UPDATE intent has succeeded,
\* execute_intent returns success=true with the affected-row count, whatever
\* fails in the resignation cascade (flag lookup, name, email lookup, nested
\* SEND_EMAIL raising or returning success=false, audit write).
C11_CascadeNeverFailsUpdate ==
    UpdateSucceeds =>
        /\ call.response.kind = "IntentExecutionResponse"
        /\ call.response.success
        /\ call.request.intent.condition = ConditionAlice =>
               call.response.message =
                   "UPDATE completed for " \o IntStr(Cardinality(RowsOfAlice)) \o " rows"

\* the update matched Alice's row, the Email Sender gave up on the nested
\* SEND_EMAIL and the audit write raised, and the UPDATE still answered with
\* success
C11_Witness ==
    /\ UpdateSucceeds
    /\ Cardinality(RowsOfAlice) = 1
    /\ Len(call.sent) = 1
    /\ call.sent[1].outcome = "EmailSendError"
    /\ "audit_raised" \in call.effects
    /\ call.response.success
    /\ call.response.message = "UPDATE completed for 1 rows"

\* C12: when a SEND_EMAIL intent has passed all validations and the Email
\* Sender fails (configuration error or retries exhausted), the handler
\* returns a result with success=false and a message and raises nothing.
C12_SenderFailureIsReturned ==
    (Executed /\ CallAction = "SEND_EMAIL" /\ call.sent # <<>>) =>
        /\ Len(call.sent) = 1
        /\ call.sent[1].outcome # "sent" =>
               /\ call.response.kind = "dict"
               /\ ~ call.response.success
               /\ call.response.message # ""
        /\ call.sent[1].outcome = "sent" => call.response.success

\* a SEND_EMAIL with a looked up address went to a sender that gave up
C12_Witness ==
    /\ Executed
    /\ CallAction = "SEND_EMAIL"
    /\ Len(call.sent) = 1
    /\ call.sent[1].to_email = "a@x.com"
    /\ call.sent[1].outcome = "EmailSendError"
    /\ "lookup_email" \in call.effects
    /\ ~ call.response.success

SendOutsideHR ==
    /\ Executed
    /\ CallAction = "SEND_EMAIL"
    /\ upper(call.request.intent.department) # "HR"

Forbidden == call.response.kind = "HTTPException" /\ call.response.status_code = 403

NoSendNoAudit == call.sent = <<>> /\ email_audits = call.before.email_audits

\* C9 as stated: a SEND_EMAIL intent whose department is not HR fails with
\* Forbidden, without a send and without an audit record.
C9_OutsideHRForbidden == SendOutsideHR => (Forbidden /\ NoSendNoAudit)

\* C9: a SEND_EMAIL intent whose department is not HR and which the Authority
\* Gate allows fails with Forbidden; one that the gate does not allow gets the
\* gate's success=false response; in both cases no email is sent and no audit
\* record is written.
C9_AllowedOutsideHRForbidden ==
    SendOutsideHR =>
        /\ \A gate \in {CallGate} :
               /\ gate.allowed => Forbidden
               /\ ~ gate.allowed =>
                      (call.response.kind = "IntentExecutionResponse"
                           /\ ~ call.response.success)
        /\ NoSendNoAudit

\* a SEND_EMAIL for Accounts was refused with 403 although Alice's email could
\* have been looked up in the registered HR sheet
C9_Witness ==
    /\ SendOutsideHR
    /\ CallGate.allowed
    /\ Forbidden
    /\ call.request.intent.employee_name = "Alice"
    /\ files[target_path("HR", ".xlsx")] = [exists |-> TRUE, rows |-> SheetHR]
    /\ latest(department_files, call.request.user_id, "HR").found

(***************************************************************************)
(* Claims about the Intent Parser, checked under SpecParse.                *)
(***************************************************************************)
\* The blocks of the reply: each starts at a marker and runs to the token
\* before the next marker.
MarkerPositions == {i \in 1..Len(reply) : reply[i] = "INTENT:"}

BlockEnd(p) == Min({q \in MarkerPositions : q > p} \cup {Len(reply) + 1}) - 1

\* The text of a field of the block at p: what follows the first occurrence of
\* the field name up to the next field name or the end of the block, trimmed.
FieldText(p, name) ==
    LET occ == {i \in (p + 1)..BlockEnd(p) : upper(reply[i]) = name} IN
    IF occ = {} THEN <<>>
    ELSE LET from == Min(occ)
             to == Min({k \in (from + 1)..BlockEnd(p) :
                           upper(reply[k]) \in lookahead_fields}
                       \cup {BlockEnd(p) + 1})
             inner == {k \in (from + 1)..(to - 1) : reply[k] \notin Whitespace}
         IN IF inner = {} THEN <<>> ELSE SubSeq(reply, Min(inner), Max(inner))

ExecutableBlock(p) ==
    /\ Len(FieldText(p, "ACTION:")) = 1
    /\ upper(FieldText(p, "ACTION:")[1]) \in allowed_actions
    /\ FieldText(p, "DEPARTMENT:") # <<>>

ExecutableBlocks == {p \in MarkerPositions : ExecutableBlock(p)}

\* The k-th executable block in the order of the text
KthBlock(k) ==
    CHOOSE p \in ExecutableBlocks :
        Cardinality({q \in ExecutableBlocks : q <= p}) = k

\* C7: the parser returns one intent for every block with an allowed ACTION
\* and a DEPARTMENT, in the order of the text, and none for any other block;
\* two such blocks with narrative text between them give two intents.
C7_OneIntentPerExecutableBlock ==
    parseDone =>
        /\ Len(intents) = Cardinality(ExecutableBlocks)
        /\ \A k \in 1..Len(intents) :
               /\ intents[k].action = upper(FieldText(KthBlock(k), "ACTION:")[1])
               /\ intents[k].department = Join(FieldText(KthBlock(k), "DEPARTMENT:"))
        /\ reply = BlockReadHR \o Narrative \o BlockUpdateAccounts
               => /\ Len(intents) = 2
                  /\ intents[1].action = "READ"
                  /\ intents[2].action = "UPDATE"
                  /\ intents[2].department = "Accounts"
        /\ reply = BlockRoute \o BlockReadHR \o BlockNoAction
               => Len(intents) = 1 /\ intents[1].action = "READ"

C7_Witness ==
    /\ parseDone
    /\ reply = BlockReadHR \o Narrative \o BlockUpdateAccounts
    /\ Len(intents) = 2

(***************************************************************************)
(* Claims about the TEMPLATE / WORKFLOW branch and the Authority Gate,     *)
(* checked under Spec.                                                     *)
(***************************************************************************)
\* an execute_intent call of a TEMPLATE or WORKFLOW intent that the Authority
\* Gate lets through
AllowedRuleTextCall ==
    /\ call.op = "execute_intent"
    /\ upper(call.request.intent.action) \in {"TEMPLATE", "WORKFLOW"}
    /\ check_authority(central_rules, call.request.user_id,
                       call.request.intent.department,
                       upper(call.request.intent.action)).allowed

SpreadsheetEffects == {"excel_open", "excel_read", "excel_write", "lookup_email"}

\* C18: an allowed TEMPLATE or WORKFLOW intent touches no spreadsheet; with a
\* rule document of the user and department it succeeds with data.rule_text
\* the raw text of the document created last, without one it fails with 404.
C18_RuleTextWithoutSpreadsheet ==
    AllowedRuleTextCall =>
        /\ call.effects \cap SpreadsheetEffects = {}
        /\ files = call.before.files
        /\ call.sent = <<>>
        /\ IF RecordsOf(department_rules, call.request.user_id,
                        call.request.intent.department) # {}
           THEN /\ call.response.kind = "IntentExecutionResponse"
                /\ call.response.success
                /\ call.response.data.rule_text =
                       Newest(department_rules, call.request.user_id,
                              call.request.intent.department).rule_text
           ELSE /\ call.response.kind = "HTTPException"
                /\ call.response.status_code = 404

\* TEMPLATE for HR answered with the HR document while the HR spreadsheet is
\* registered and on disk
C18_Witness ==
    /\ AllowedRuleTextCall
    /\ call.request.intent.action = "TEMPLATE"
    /\ call.response.success
    /\ call.response.data.rule_text = TemplateHR
    /\ \E i \in 1..Len(department_files) :
           /\ department_files[i].department = "HR"
           /\ files[department_files[i].excel_path].exists

\* WORKFLOW for a department without a rule document
C18_WitnessNotFound ==
    /\ AllowedRuleTextCall
    /\ call.request.intent.action = "WORKFLOW"
    /\ call.response.status_code = 404
    /\ department_rules # <<>>

\* an execute_intent call whose action and department have both markers
BothMarkersCall ==
    /\ call.op = "execute_intent"
    /\ HasMarker(call.request.user_id, "disallow",
                 call.request.intent.action, call.request.intent.department)
    /\ HasMarker(call.request.user_id, "approval",
                 call.request.intent.action, call.request.intent.department)

\* C19: with both the disallow and the approval marker for the action and
\* department of an intent, check_authority answers (false, false, _) and the
\* executor answers with the policy-restriction message, having done nothing.
C19_DisallowWinsOverApproval ==
    BothMarkersCall =>
        /\ \A gate \in {check_authority(central_rules, call.request.user_id,
                                        call.request.intent.department,
                                        upper(call.request.intent.action))} :
               ~ gate.allowed /\ ~ gate.requires_approval
        /\ call.response.kind = "IntentExecutionResponse"
        /\ ~ call.response.success
        /\ call.response.message =
               "This action cannot be performed due to company policy restrictions."
        /\ files = call.before.files
        /\ email_audits = call.before.email_audits
        /\ call.sent = <<>>

\* an UPDATE for HR after "Disallow UPDATE HR" and "approval update hr" were
\* both uploaded, the approval document last
C19_Witness ==
    /\ BothMarkersCall
    /\ call.request = IntentExecutionRequest("u1", Resign("HR"))
    /\ \E i, j \in 1..Len(central_rules) :
           /\ i < j
           /\ central_rules[i].rule_text = DocUpdate
           /\ central_rules[j].rule_text = DocApproval
    /\ call.response.message =
           "This action cannot be performed due to company policy restrictions."

(***************************************************************************)
(* Claims about the auto_send_on_resignation flag, checked under Spec.     *)
(***************************************************************************)
\* the row that an upload of a central rule document has just added
UploadedCentralRule == central_rules'[Len(central_rules')]

\* C20: after a user uploads a central rule document, the lookup of the flag
\* auto_send_on_resignation for that user answers whether the text of the
\* document holds one of the trigger phrases.
C20_FlagFollowsPhrases ==
    [][Len(central_rules') > Len(central_rules) =>
          (central_rules_get_flag(UploadedCentralRule.user_id,
                                  "auto_send_on_resignation", central_rules')
              <=> parse_central_rules_flags(UploadedCentralRule.rule_text)
                      .auto_send_on_resignation)]_vars

\* the document uploaded last by u1 holds a trigger phrase and the lookup of
\* the flag for u1 answers false
C20_Witness ==
    /\ rows_of_user(central_rules, "u1") # <<>>
    /\ \A rows \in {rows_of_user(central_rules, "u1")} :
           /\ rows[Len(rows)].rule_text = DocMany
           /\ parse_central_rules_flags(rows[Len(rows)].rule_text)
                  .auto_send_on_resignation
    /\ ~ central_rules_get_flag("u1", "auto_send_on_resignation", central_rules)

(***************************************************************************)
(* Claims about what makes the resignation cascade fire, checked under     *)
(* Spec.                                                                   *)
(***************************************************************************)
\* VALUES of the call has a status key, in any case and padding, whose value
\* is 'resigned' in any case and padding
ValuesResigned ==
    \E k \in DOMAIN call.request.intent.values.val :
        /\ lower_strip(k) = "status"
        /\ Truthy(call.request.intent.values.val[k])
        /\ lower_strip(Str(call.request.intent.values.val[k])) = "resigned"

\* VALUES of the call names the employee
NameInValues ==
    \E k \in {"employee_name", "name", "full_name"} :
        /\ k \in DOMAIN call.request.intent.values.val
        /\ Truthy(call.request.intent.values.val[k])

\* the auto_send_on_resignation column of the newest central rule of the caller
FlagStored ==
    \E i \in 1..Len(central_rules) :
        /\ central_rules[i].user_id = call.request.user_id
        /\ central_rules[i].auto_send_on_resignation
        /\ \A j \in (i + 1)..Len(central_rules) :
               central_rules[j].user_id # call.request.user_id

\* C21: with a name in VALUES, the nested SEND_EMAIL of an UPDATE is executed
\* exactly when VALUES has a status of 'resigned' and the flag lookup answers
\* true, whatever the number of rows the update matched, zero included.
C21_CascadeIgnoresRowCount ==
    (UpdateSucceeds /\ NameInValues) =>
        ("nested" \in call.effects
            <=> (ValuesResigned /\ FlagStored /\ "flag_raised" \notin call.effects))

\* an UPDATE with status Resigned and the name Alice whose condition matched
\* no row (Alice's row was deleted before): the nested SEND_EMAIL was executed
C21_Witness ==
    /\ UpdateSucceeds
    /\ NameInValues
    /\ call.request.intent.condition = ConditionAlice
    /\ RowsOfAlice = {}
    /\ call.response.message = "UPDATE completed for 0 rows"
    /\ "nested" \in call.effects

(***************************************************************************)
(* Claims about the inputs the Intent Executor requires, checked under     *)
(* Spec.                                                                   *)
(***************************************************************************)
\* the call passed the Authority Gate with a READ, INSERT, UPDATE or DELETE
\* intent that lacks an input the action requires
MissingInput ==
    LET intent == call.request.intent IN
    /\ Executed
    /\ CallAction \in {"READ", "INSERT", "UPDATE", "DELETE"}
    /\ \/ /\ ~ Truthy(intent.excel_path)
          /\ RecordsOf(department_files, call.request.user_id, intent.department) = {}
       \/ CallAction = "INSERT" /\ intent.values.kind = "none"
       \/ /\ CallAction = "UPDATE"
          /\ \/ ~ Truthy(intent.sheet_name)
             \/ intent.condition = <<>>
             \/ intent.values.kind # "dict"
       \/ /\ CallAction = "DELETE"
          /\ ~ Truthy(intent.sheet_name) \/ intent.condition = <<>>
    /\ CallGate.allowed

\* C22: a READ, INSERT, UPDATE or DELETE intent that lacks a required input
\* is rejected with 400, and nothing was written: every spreadsheet is as
\* before the call, and no email or audit row was made.
C22_BadRequestBeforeMutation ==
    MissingInput =>
        /\ call.response.kind = "HTTPException"
        /\ call.response.status_code = 400
        /\ files = call.before.files
        /\ email_audits = call.before.email_audits
        /\ call.sent = <<>>
        /\ call.effects \cap {"excel_write", "excel_open", "excel_read"} = {}

\* an INSERT without VALUES for a department whose spreadsheet is registered
\* and on disk was rejected
C22_Witness ==
    /\ MissingInput
    /\ CallAction = "INSERT"
    /\ call.request.intent.values.kind = "none"
    /\ files[CallPath].exists
    /\ Len(files[CallPath].rows) >= 2
    /\ call.response.message = "INSERT requires VALUES."

\* an UPDATE whose VALUES is a list was rejected
C22_WitnessNotMapping ==
    /\ MissingInput
    /\ CallAction = "UPDATE"
    /\ call.request.intent.values.kind = "list"
    /\ files[CallPath].exists

(***************************************************************************)
(* Claims about what a SEND_EMAIL intent needs before the Email Sender is  *)
(* invoked, checked under Spec.                                            *)
(***************************************************************************)
\* the address has the shape local@domain.tld, with no whitespace in it
AddressShape(address) == address \in {"a@x.com", "b@x.com"}

\* the address without the whitespace around it
Trimmed(address) == IF address = " a@x.com " THEN "a@x.com" ELSE address

\* the newest HR registration of the caller, if there is one
HasHRFile == RecordsOf(department_files, call.request.user_id, "HR") # {}

HRFile == call.before.files[Newest(department_files, call.request.user_id, "HR").excel_path]

\* the address of the call: the one given or, without one, the one that the
\* name lookup finds in the newest HR spreadsheet (None if it finds none)
Recipient ==
    IF Truthy(call.request.intent.email) THEN call.request.intent.email
    ELSE IF ~ HasHRFile THEN None
    ELSE lookup_email_by_name([readable |-> HRFile.exists, rows |-> HRFile.rows],
                              call.request.intent.employee_name)

\* a SEND_EMAIL call for HR that the Authority Gate let through
SendCall ==
    /\ Executed
    /\ CallAction = "SEND_EMAIL"
    /\ CallGate.allowed
    /\ upper(call.request.intent.department) = "HR"

\* what keeps the Email Sender from being invoked, with the address judged
\* as it is (strict) or after trimming
Defect(strict) ==
    LET intent == call.request.intent IN
    \/ ~ Truthy(intent.employee_name)
    \/ Recipient = None
    \/ ~ AddressShape(IF strict THEN Recipient ELSE Trimmed(Recipient))
    \/ ~ Truthy(intent.subject)
    \/ intent.body = <<>>

SenderNeeds(strict) ==
    /\ (Executed /\ CallAction = "SEND_EMAIL" /\ call.sent # <<>>) =>
           /\ upper(call.request.intent.department) = "HR"
           /\ ~ Defect(strict)
           /\ Len(call.sent) = 1
           /\ call.sent[1].to_email = Recipient
    /\ (SendCall /\ Defect(strict)) =>
           /\ call.response.kind = "HTTPException"
           /\ call.response.status_code = 400
           /\ call.sent = <<>>

\* C23 as stated: the Email Sender is invoked by a SEND_EMAIL intent only for
\* HR, with a name, an address (given, or resolved in the newest HR
\* spreadsheet) of the shape local@domain.tld, a subject and a body; each
\* defect gives 400 and no send.
C23_SenderNeedsWellFormedAddress == SenderNeeds(TRUE)

\* C23: the same, the shape being that of the address after the whitespace
\* around it is trimmed; the sender gets the address untrimmed.
C23_SenderNeedsTrimmedWellFormedAddress == SenderNeeds(FALSE)

\* an email was handed to the sender for an address with blanks around it
C23_Witness ==
    /\ SendCall
    /\ call.sent # <<>>
    /\ call.sent[1].to_email = " a@x.com "
    /\ ~ AddressShape(call.sent[1].to_email)
    /\ call.response.success

\* the name was not found in the registered HR spreadsheet: 400, nothing sent
C23_WitnessUnresolved ==
    /\ SendCall
    /\ ~ Truthy(call.request.intent.email)
    /\ HasHRFile
    /\ Recipient = None
    /\ call.response.status_code = 400
    /\ call.sent = <<>>

(***************************************************************************)
(* Claims about concurrent callers of the Row Store, checked under         *)
(* SpecRace.                                                               *)
(***************************************************************************)
\* both callers have returned from calls that loaded the same content and
\* saved
BothSavedSameLoad ==
    /\ \A p \in Callers : /\ race.callers[p].pc = "returned"
                          /\ race.callers[p].out.saved
    /\ race.callers[1].loaded = race.callers[2].loaded

\* C24: nothing serialises two mutating calls on one path: when both loaded
\* the same content and both saved, the file is the rewrite of the caller
\* that saved last, made from the old content; of two inserts only the later
\* one's row is in the file although both returned successfully.
C24_LastWriteWins ==
    BothSavedSameLoad =>
        /\ race.writer \in Callers
        /\ sheet = race.callers[race.writer].out.file
        /\ (\A p \in Callers : race.callers[p].name = "insert") =>
               Len(sheet) = Len(race.callers[1].loaded) + 1

\* two inserts of different rows from the same old content both returned
\* without error; the file has the row of caller 2 and not that of caller 1
C24_Witness ==
    /\ BothSavedSameLoad
    /\ race.writer = 2
    /\ \A p \in Callers : /\ race.callers[p].name = "insert"
                          /\ ~ race.callers[p].out.raised
    /\ race.callers[1].values = List(<<"1">>)
    /\ race.callers[2].values = List(<<"#1">>)
    /\ sheet = Append(race.callers[2].loaded, <<"#1">>)
    /\ \A r \in (Len(race.callers[1].loaded) + 1)..Len(sheet) : sheet[r] # <<"1">>

(***************************************************************************)
(* Claims about the letter case of DEPARTMENT, checked under Spec.         *)
(***************************************************************************)
\* what execute_intent answers now to u1's intent of the action for the
\* department as written
AnswerNow(action, department) ==
    execute_intent(Database,
                   IntentExecutionRequest("u1", OperationIntent(action, department)),
                   [transport |-> "sent", flag_error |-> FALSE])

\* "HR" and "hr" get in the current state the same authority decision, the
\* same registration, the same rule document and the same result
SameForBothCases(action) ==
    /\ check_authority(central_rules, "u1", "HR", action)
           = check_authority(central_rules, "u1", "hr", action)
    /\ latest(department_files, "u1", "HR") = latest(department_files, "u1", "hr")
    /\ latest(department_rules, "u1", "HR") = latest(department_rules, "u1", "hr")
    /\ \A upper_case \in {AnswerNow(action, "HR")},
          lower_case \in {AnswerNow(action, "hr")} :
           /\ upper_case.response = lower_case.response
           /\ upper_case.files = lower_case.files

\* C25: two intents of a user that differ only in the letter case of
\* DEPARTMENT get the same authority decision, the same spreadsheet
\* registration, the same rule document and the same execution result.
C25_DepartmentCaseInsensitive ==
    call.op = "none" => \A action \in {"READ", "TEMPLATE"} : SameForBothCases(action)

\* the spreadsheet and the rule document are registered for "HR", the gate
\* decides alike for both spellings; READ and TEMPLATE for "HR" succeed, for
\* "hr" they fail with 400 and 404
C25_Witness ==
    /\ call.op = "none"
    /\ check_authority(central_rules, "u1", "HR", "READ").allowed
    /\ check_authority(central_rules, "u1", "hr", "READ").allowed
    /\ check_authority(central_rules, "u1", "hr", "TEMPLATE").allowed
    /\ AnswerNow("READ", "HR").response.success
    /\ AnswerNow("READ", "hr").response.status_code = 400
    /\ AnswerNow("TEMPLATE", "HR").response.success
    /\ AnswerNow("TEMPLATE", "hr").response.status_code = 404

(***************************************************************************)
(* Claims about excel_delete, checked under SpecExcel.                     *)
(***************************************************************************)
\* the last call is an excel_delete with a well-formed condition on a column
\* of the header row
DeleteOnColumn ==
    /\ last.op = "delete"
    /\ WellFormed(last.condition)
    /\ ColumnInHeader(last.before, last.condition)

\* the column the condition names (the last one of that name) and the data
\* rows of g whose cell in it equals the condition value as strings
DeleteColumn ==
    CHOOSE c \in 1..Len(header_row(last.before)) :
        /\ header_row(last.before)[c] = parse_simple_condition(last.condition).column
        /\ \A d \in (c + 1)..Len(header_row(last.before)) :
               header_row(last.before)[d] # header_row(last.before)[c]

Matching(g) ==
    {r \in 2..Len(g) :
        Str(g[r][DeleteColumn]) = Str(parse_simple_condition(last.condition).value)}

\* the rows of g that are not in the set, in their order
RECURSIVE Without(_, _)
Without(g, rows) ==
    IF g = <<>> THEN <<>>
    ELSE IF Len(g) \in rows THEN Without(SubSeq(g, 1, Len(g) - 1), rows)
    ELSE Append(Without(SubSeq(g, 1, Len(g) - 1), rows), g[Len(g)])

\* C26 as stated: excel_delete returns the number of matching rows, and the
\* file then holds the header row and the non-matching rows in their order,
\* none of which matches.
C26_DeleteKeepsOtherRows ==
    DeleteOnColumn =>
        /\ ~ last.out.raised
        /\ last.out.count = Cardinality(Matching(last.before))
        /\ sheet = Without(last.before, Matching(last.before))

\* C26: the same for the file as it is stored: rows and columns left without
\* a value at the end of the sheet are not in it.
C26_DeleteKeepsOtherStoredRows ==
    DeleteOnColumn =>
        /\ ~ last.out.raised
        /\ last.out.count = Cardinality(Matching(last.before))
        /\ sheet = wb_save(Without(last.before, Matching(last.before)))
        /\ Matching(sheet) = {}
        /\ sheet # <<>> /\ LastNonNull(last.before[1]) = Len(last.before[1])
               => sheet[1] = last.before[1]

\* two adjacent rows, the number 1 and the text "1", were both deleted by
\* id=1
C26_Witness ==
    /\ DeleteOnColumn
    /\ last.condition = <<"id", "=", "1">>
    /\ Len(last.before) = 3
    /\ last.before[2][DeleteColumn] = "#1"
    /\ last.before[3][DeleteColumn] = "1"
    /\ last.out.count = 2
    /\ Len(sheet) = 1

(***************************************************************************)
(* SpecCascade: intent executions of a user whose HR spreadsheet is        *)
(* registered and whose newest central rule has the resignation flag set.  *)
(***************************************************************************)
DocSendApproval == <<"approval", " ", "send_email", " ", "hr">>

\* the central rule of the user: no marker, or a marker for send_email hr
CascadeCentralRules ==
    {<<CentralRule("u1", d, TRUE)>> : d \in {DocPlain, DocSend, DocSendApproval}}

InitCascade ==
    /\ central_rules \in CascadeCentralRules
    /\ department_rules \in
           {<<>>, <<[user_id |-> "u1", department |-> "HR", rule_text |-> TemplateHR]>>}
    /\ department_files =
           <<[user_id |-> "u1", department |-> "HR",
              excel_path |-> target_path("HR", ".xlsx")]>>
    /\ files = [p \in Paths |->
                   IF p = target_path("HR", ".xlsx")
                   THEN [exists |-> TRUE, rows |-> SheetHR] ELSE NoFile]
    /\ email_audits = <<>>
    /\ call = NoExecution
    /\ IdleExcel
    /\ IdleParse
    /\ IdleLookup
    /\ IdleSend
    /\ IdleChat
    /\ IdleRace

NextCascade == ExecuteIntent \/ Return

SpecCascade == InitCascade /\ [][NextCascade]_vars

\* the central rules of the caller hold a disallow or an approval marker for
\* send_email hr
SendEmailBlocked ==
    \/ HasMarker(call.request.user_id, "disallow", "SEND_EMAIL", "HR")
    \/ HasMarker(call.request.user_id, "approval", "SEND_EMAIL", "HR")

\* the spreadsheet of the call holds what excel_update makes of its content
\* before the call
UpdateApplied ==
    \E out \in {excel_update(call.before.files[CallPath].rows,
                              call.request.intent.condition,
                              call.request.intent.values.val)} :
        /\ files[CallPath].exists
        /\ files[CallPath].rows =
               IF out.saved THEN out.file ELSE call.before.files[CallPath].rows
        /\ call.response.message =
               "UPDATE completed for " \o IntStr(out.count) \o " rows"

\* C27: when an UPDATE is allowed and succeeds while the central rules of the
\* user hold a disallow or approval marker for send_email hr, the Email
\* Sender is not invoked, the spreadsheet update is applied and the UPDATE
\* returns success.
C27_CascadeHasOwnGate ==
    (UpdateSucceeds /\ SendEmailBlocked) =>
        /\ call.sent = <<>>
        /\ "send_email" \notin call.effects
        /\ call.response.kind = "IntentExecutionResponse"
        /\ call.response.success
        /\ UpdateApplied

\* the nested SEND_EMAIL of a resignation was refused for the approval marker
\* and the row of Alice was updated
C27_Witness ==
    /\ UpdateSucceeds
    /\ HasMarker(call.request.user_id, "approval", "SEND_EMAIL", "HR")
    /\ "nested" \in call.effects
    /\ call.sent = <<>>
    /\ RowsOfAlice # {}
    /\ files[CallPath] # call.before.files[CallPath]
    /\ call.response.success

\* the same for the disallow marker
C27_WitnessDisallow ==
    /\ UpdateSucceeds
    /\ HasMarker(call.request.user_id, "disallow", "SEND_EMAIL", "HR")
    /\ "nested" \in call.effects
    /\ call.sent = <<>>
    /\ files[CallPath] # call.before.files[CallPath]
    /\ call.response.success

ResponseKinds == {"IntentExecutionResponse", "dict", "HTTPException"}

\* execute_intent has a result for every request on the database as it is
ExecuteIntentReturns ==
    \A request \in Requests, transport \in Transports, flag_error \in BOOLEAN :
        \E result \in {execute_intent(Database, request,
                                       [transport |-> transport,
                                        flag_error |-> flag_error])} :
            /\ result.response.kind \in ResponseKinds
            /\ Len(result.sent) <= 1
            /\ "nested_nested" \notin result.effects

\* C28: every call of execute_intent returns; a nested call is made only by
\* an UPDATE whose spreadsheet update succeeded, it changes no spreadsheet
\* and nests no further, and at most one email is handed to the Email
\* Sender and at most one audit row written per call.
C28_CascadeDepthAtMostOne ==
    /\ call.op = "none" => ExecuteIntentReturns
    /\ Executed =>
           /\ call.response.kind \in ResponseKinds
           /\ "nested_nested" \notin call.effects
           /\ Len(call.sent) <= 1
           /\ Len(email_audits) <= Len(call.before.email_audits) + 1
           /\ "nested" \in call.effects => (UpdateSucceeds /\ UpdateApplied)
           /\ CallAction = "SEND_EMAIL" => "nested" \notin call.effects

\* an UPDATE made the nested call, whose one email the transport refused
C28_Witness ==
    /\ Executed
    /\ CallAction = "UPDATE"
    /\ "nested" \in call.effects
    /\ Len(call.sent) = 1
    /\ call.sent[1].outcome = "EmailSendError"
    /\ call.response.success

\* the k-th execution of the chat raised: the request failed with its error
\* and without results, nothing was executed after it, and the spreadsheets
\* and the audit table are as the executions up to k left them
FailedAt(k, parsed) ==
    /\ chat.response.kind = "HTTPException"
    /\ chat.response.status_code = chat.executions[k].response.status_code
    /\ chat.response.detail = chat.executions[k].response.message
    /\ chat.response.execution_results = <<>>
    /\ chat.response.execution_result = NoResultGiven
    /\ chat.response.intents = <<>>
    /\ Len(chat.executions) = k
    /\ k <= Len(parsed)
    /\ \A j \in 1..k :
           /\ chat.executions[j].intent = parsed[j]
           /\ chat.executions[j].before =
                  (IF j = 1 THEN chat.before ELSE chat.executions[j - 1].after)
    /\ files = chat.executions[k].after.files
    /\ email_audits = chat.executions[k].after.email_audits

\* C29: when the execution of the k-th parsed intent raises an error, the
\* chat request fails with that error: no intent after k is executed, no
\* result of an intent before k is returned, and what the intents before k
\* did to the spreadsheets and the audit table stays.
C29_ErrorAbortsChat ==
    (ChatDone /\ UsableReply) =>
        \A k \in 1..Len(chat.executions) : Raised(k) =>
            \A parsed \in {operation_intents(chat.llm.reply)} : FailedAt(k, parsed)

\* DELETE of Alice's row, then SEND_EMAIL to Alice: the second raises, the
\* row stays deleted
C29_Witness ==
    /\ ChatDone
    /\ chat.llm.reply = ChatDeleteAlice \o ChatSendAlice
    /\ Len(chat.executions) = 2
    /\ chat.executions[1].response.message = "DELETE completed for 1 rows"
    /\ Raised(2)
    /\ chat.response.kind = "HTTPException"
    /\ files # chat.before.files
    /\ files = chat.executions[1].after.files

\* TEMPLATE without an HR document, then READ: the first raises and the READ
\* is not executed
C29_WitnessNotExecuted ==
    /\ ChatDone
    /\ chat.llm.reply = ChatTemplateHR \o BlockReadHR
    /\ Len(operation_intents(chat.llm.reply)) = 2
    /\ Len(chat.executions) = 1
    /\ Raised(1)
    /\ chat.response.status_code = 404

\* SEND_EMAIL to Alice, then TEMPLATE without an HR document: the email was
\* handed to the sender before the request failed
C29_WitnessEmailSent ==
    /\ ChatDone
    /\ chat.llm.reply = ChatSendAlice \o ChatTemplateHR
    /\ Len(chat.executions) = 2
    /\ Len(chat.executions[1].sent) = 1
    /\ chat.executions[1].sent[1].outcome = "sent"
    /\ Raised(2)
    /\ chat.response.kind = "HTTPException"

\* what check_authority refuses on the table before a step it refuses on the
\* table after it
DenialsKept ==
    \A user_id \in Users, department \in GateDepartments, action \in GateActions :
        ~ check_authority(central_rules, user_id, department, action).allowed
            => ~ check_authority(central_rules', user_id, department, action).allowed

\* C30: the central rules table only grows, and once check_authority refuses
\* an action of a user and department it refuses it after every later
\* upload: a newer document does not allow the action again.
C30_DenialIsMonotonic ==
    [][central_rules' # central_rules =>
           (IsPrefix(central_rules, central_rules') /\ DenialsKept)]_vars

\* an UPDATE on HR was refused for the marker of an older document, the
\* newest document of the user having no marker for it
C30_Witness ==
    /\ Executed
    /\ call.request.user_id = "u1"
    /\ CallAction = "UPDATE"
    /\ lower(call.request.intent.department) = "hr"
    /\ ~ call.response.success
    /\ call.response.message = PolicyMessage
    /\ \E rules \in {rows_of_user(central_rules, "u1")} :
           /\ Len(rules) >= 2
           /\ rules[1].rule_text = DocUpdate
           /\ rules[Len(rules)].rule_text = DocMany
           /\ check_authority(<<rules[Len(rules)]>>, "u1", "HR", "UPDATE").allowed

====
